---- MODULE Spec2Model ----
(***************************************************************************)
(* Model of the library-management backend's request gate                  *)
(* (src/middleware.ts): bearer-token session lookup, sliding session       *)
(* renewal, identity-header injection, the self-access rule on             *)
(* /api/users/ paths and the static role/path/method permission table.     *)
(*                                                                         *)
(* Strings the code inspects character by character (paths, the            *)
(* Authorization header, ids rendered by toString) are sequences of        *)
(* one-character strings, so that startsWith, split and the comparison of  *)
(* a path segment with an id are computed as the code computes them.       *)
(* Time is counted in hours.                                               *)
(***************************************************************************)
EXTENDS Integers, Sequences, FiniteSets, TLC

(***************************************************************************)
(* Bounds of the model.                                                    *)
(***************************************************************************)
\* number of clock advances explored
MaxTicks == 3
\* number of overlapping middleware invocations in SpecConc
NumProcs == 2


(***************************************************************************)
(* String literals of the program.                                         *)
(***************************************************************************)
RouteLogin == <<"/", "a", "p", "i", "/", "a", "u", "t", "h", "/", "l", "o", "g", "i", "n">>
RouteRegister == <<"/", "a", "p", "i", "/", "a", "u", "t", "h", "/", "r", "e", "g", "i", "s", "t", "e", "r">>
RouteSignin == <<"/", "a", "p", "i", "/", "a", "u", "t", "h", "/", "s", "i", "g", "n", "i", "n">>
RouteCallback == <<"/", "a", "p", "i", "/", "a", "u", "t", "h", "/", "c", "a", "l", "l", "b", "a", "c", "k">>
RouteProviders == <<"/", "a", "p", "i", "/", "a", "u", "t", "h", "/", "p", "r", "o", "v", "i", "d", "e", "r", "s">>
RouteSession == <<"/", "a", "p", "i", "/", "a", "u", "t", "h", "/", "s", "e", "s", "s", "i", "o", "n">>
RouteCsrf == <<"/", "a", "p", "i", "/", "a", "u", "t", "h", "/", "c", "s", "r", "f">>
RouteDebug == <<"/", "a", "p", "i", "/", "a", "u", "t", "h", "/", "d", "e", "b", "u", "g">>
UsersPrefix == <<"/", "a", "p", "i", "/", "u", "s", "e", "r", "s", "/">>
Me == <<"m", "e">>
ApiPrefix == <<"/", "a", "p", "i", "/">>
LibrariesPrefix == <<"/", "a", "p", "i", "/", "l", "i", "b", "r", "a", "r", "i", "e", "s", "/">>
BooksPrefix == <<"/", "a", "p", "i", "/", "b", "o", "o", "k", "s", "/">>
LoansPrefix == <<"/", "a", "p", "i", "/", "l", "o", "a", "n", "s", "/">>
ReservationsPrefix == <<"/", "a", "p", "i", "/", "r", "e", "s", "e", "r", "v", "a", "t", "i", "o", "n", "s", "/">>
PenaltiesPrefix == <<"/", "a", "p", "i", "/", "p", "e", "n", "a", "l", "t", "i", "e", "s", "/">>
PathUsers == <<"/", "a", "p", "i", "/", "u", "s", "e", "r", "s">>
PathUsersMe == <<"/", "a", "p", "i", "/", "u", "s", "e", "r", "s", "/", "m", "e">>
PathBooks == <<"/", "a", "p", "i", "/", "b", "o", "o", "k", "s">>
PathReservations == <<"/", "a", "p", "i", "/", "r", "e", "s", "e", "r", "v", "a", "t", "i", "o", "n", "s">>
PathFeedbacks == <<"/", "a", "p", "i", "/", "f", "e", "e", "d", "b", "a", "c", "k", "s">>
PathSales == <<"/", "a", "p", "i", "/", "s", "a", "l", "e", "s">>

(***************************************************************************)
(* Strings used to build the requests the model sends.                     *)
(***************************************************************************)
Bearer == <<"B", "e", "a", "r", "e", "r">>
Basic == <<"B", "a", "s", "i", "c">>
TokenA == <<"t", "A">>
TokenM == <<"t", "M">>
TokenC == <<"t", "C">>
TokenD == <<"t", "D">>
TokenZ == <<"t", "Z">>
PathUsers2 == <<"/", "a", "p", "i", "/", "u", "s", "e", "r", "s", "/", "2">>
PathUsers7 == <<"/", "a", "p", "i", "/", "u", "s", "e", "r", "s", "/", "7">>
PathUsers8 == <<"/", "a", "p", "i", "/", "u", "s", "e", "r", "s", "/", "8">>
PathUsersMeNotifications == <<"/", "a", "p", "i", "/", "u", "s", "e", "r", "s", "/", "m", "e", "/", "n", "o", "t", "i", "f", "i", "c", "a", "t", "i", "o", "n", "s">>
PathUsers7Penalties == <<"/", "a", "p", "i", "/", "u", "s", "e", "r", "s", "/", "7", "/", "p", "e", "n", "a", "l", "t", "i", "e", "s">>
PathBooks1 == <<"/", "a", "p", "i", "/", "b", "o", "o", "k", "s", "/", "1">>
PathLibraries1 == <<"/", "a", "p", "i", "/", "l", "i", "b", "r", "a", "r", "i", "e", "s", "/", "1">>
PathLoans1 == <<"/", "a", "p", "i", "/", "l", "o", "a", "n", "s", "/", "1">>
PathPenalties1 == <<"/", "a", "p", "i", "/", "p", "e", "n", "a", "l", "t", "i", "e", "s", "/", "1">>
PathApi == <<"/", "a", "p", "i">>
PathLoginX == <<"/", "a", "p", "i", "/", "a", "u", "t", "h", "/", "l", "o", "g", "i", "n", "x">>
PathHome == <<"/">>

(***************************************************************************)
(* String operations of the JavaScript runtime, as the code uses them.     *)
(***************************************************************************)
\* String.prototype.startsWith
StartsWith(s, prefix) ==
    /\ Len(s) >= Len(prefix)
    /\ SubSeq(s, 1, Len(prefix)) = prefix

RECURSIVE SplitAcc(_, _, _, _, _)
SplitAcc(s, sep, i, cur, acc) ==
    IF i > Len(s) THEN Append(acc, cur)
    ELSE IF s[i] = sep THEN SplitAcc(s, sep, i + 1, <<>>, Append(acc, cur))
    ELSE SplitAcc(s, sep, i + 1, Append(cur, s[i]), acc)

\* String.prototype.split with a one-character separator: always at least
\* one part, empty parts kept
Split(s, sep) == SplitAcc(s, sep, 1, <<>>, <<>>)

\* Array.prototype.pop on the result of split: its last part
Pop(parts) == parts[Len(parts)]

DigitChar == <<"0", "1", "2", "3", "4", "5", "6", "7", "8", "9">>

RECURSIVE toString(_)
\* Number.prototype.toString of a non-negative integer id
toString(n) ==
    IF n < 10 THEN <<DigitChar[n + 1]>>
    ELSE toString(n \div 10) \o <<DigitChar[(n % 10) + 1]>>

\* Headers.set
SetHeader(h, name, value) ==
    [n \in (DOMAIN h) \cup {name} |-> IF n = name THEN value ELSE h[n]]

IsDigit(c) == \E i \in 1..Len(DigitChar) : DigitChar[i] = c

DigitValue(c) == (CHOOSE i \in 1..Len(DigitChar) : DigitChar[i] = c) - 1

RECURSIVE parseIntAcc(_, _, _)
parseIntAcc(str, i, n) ==
    IF i > Len(str) \/ ~IsDigit(str[i]) THEN n
    ELSE parseIntAcc(str, i + 1, 10 * n + DigitValue(str[i]))

NaN == [nan |-> TRUE, value |-> 0]

\* parseInt of an unsigned text: the number its leading digits spell, NaN
\* when it begins with none
parseInt(str) ==
    IF str = <<>> \/ ~IsDigit(str[1]) THEN NaN
    ELSE [nan |-> FALSE, value |-> parseIntAcc(str, 1, 0)]

(***************************************************************************)
(* Time.                                                                   *)
(***************************************************************************)
\* 86400000 ms, in hours
OneDay == 24
\* newExpires.setDate(newExpires.getDate() + 30)
RenewDays == 30
RenewSpan == RenewDays * OneDay
\* the clock advances half a day at a time, so that a remaining lifetime of
\* 12 hours occurs
TickHours == OneDay \div 2
MaxNow == MaxTicks * TickHours

(***************************************************************************)
(* The permission table and hasPermission.                                 *)
(***************************************************************************)
Roles == {"ADMIN", "MANAGER", "CLIENT", "DELIVERY"}
Methods == {"GET", "POST", "PATCH", "DELETE", "PUT"}
AllMethods == {"GET", "POST", "PATCH", "DELETE"}

\* a rule whose path is a string: matched by equality
StringRule(path, methods) ==
    [kind |-> "string", path |-> path, prefixes |-> {}, methods |-> methods]
\* a rule whose path is one of the table's regular expressions; each has the
\* shape ^prefix.* (or ^(p1|p2|p3).*) and so tests for one of its prefixes
RegExpRule(prefixes, methods) ==
    [kind |-> "regexp", path |-> <<>>, prefixes |-> prefixes, methods |-> methods]

permissions ==
    [r \in Roles |->
        CASE r = "ADMIN" ->
                << RegExpRule({ApiPrefix}, AllMethods) >>
          [] r = "MANAGER" ->
                << RegExpRule({LibrariesPrefix}, {"GET", "PATCH"}),
                   StringRule(PathUsers, {"GET"}),
                   RegExpRule({BooksPrefix}, AllMethods),
                   RegExpRule({LoansPrefix, ReservationsPrefix, PenaltiesPrefix},
                              {"GET", "POST", "PATCH"}) >>
          [] r = "CLIENT" ->
                << StringRule(PathUsersMe, {"GET", "PATCH"}),
                   StringRule(PathBooks, {"GET"}),
                   StringRule(PathReservations, {"GET", "POST", "DELETE"}),
                   StringRule(PathFeedbacks, {"GET", "POST"}) >>
          [] r = "DELIVERY" ->
                << StringRule(PathSales, {"GET", "PATCH"}),
                   StringRule(PathUsersMe, {"GET"}) >>]

\* as RegExpTest, the expression matching the whole path instead of its start
RegExpTest_Whole(rule, path) == path \in rule.prefixes

\* rule.path.test(path)
RegExpTest(rule, path) == \E pre \in rule.prefixes : StartsWith(path, pre)

\* as pathMatches, a string rule matching every path that begins with it
pathMatches_Prefix(rule, path) ==
    IF rule.kind = "string" THEN StartsWith(path, rule.path)
    ELSE RegExpTest(rule, path)

\* as pathMatches, every rule's path compared as a string
pathMatches_StringOnly(rule, path) == path = rule.path

pathMatches(rule, path) ==
    IF rule.kind = "string" THEN path = rule.path ELSE RegExpTest(rule, path)

\* as methodMatches, the methods of the rule not looked at
methodMatches_Any(rule, method) == TRUE

\* every rule of the table has a methods list, so !rule.methods is false
methodMatches(rule, method) == method \in rule.methods

\* permissions[role]?.some(...) ?? false
hasPermission(role, path, method) ==
    IF role \notin DOMAIN permissions THEN FALSE
    ELSE \E i \in 1..Len(permissions[role]) :
            /\ pathMatches(permissions[role][i], path)
            /\ methodMatches(permissions[role][i], method)


(***************************************************************************)
(* The users and the session store.                                        *)
(***************************************************************************)
\* user.libraryId of a user attached to no library (null); line 79 tests
\* its truthiness, which null and 0 fail alike
NullLibrary == 0

\* the users of the database: id, role, libraryId (read-only for the
\* middleware)
Users ==
    { [id |-> 1,  role |-> "ADMIN",    libraryId |-> NullLibrary],
      [id |-> 2,  role |-> "MANAGER",  libraryId |-> 5],
      [id |-> 7,  role |-> "CLIENT",   libraryId |-> NullLibrary],
      [id |-> 17, role |-> "DELIVERY", libraryId |-> NullLibrary] }

UserById(id) == CHOOSE u \in Users : u.id = id

\* the session rows at the start: sessionToken -> [id, userId, expires]
InitialSessions ==
    (TokenA :> [id |-> 1, userId |-> 1, expires |-> TickHours]) @@
    (TokenM :> [id |-> 2, userId |-> 2, expires |-> RenewSpan + OneDay]) @@
    (TokenC :> [id |-> 3, userId |-> 7, expires |-> 3 * TickHours]) @@
    (TokenD :> [id |-> 4, userId |-> 17, expires |-> OneDay])

\* the result of prisma.session.findUnique({where: {sessionToken}, include: {user}})
NullSession ==
    [found |-> FALSE, id |-> 0, expires |-> 0,
     user |-> [id |-> 0, role |-> "", libraryId |-> NullLibrary]]

findUnique(store, sessionToken) ==
    IF sessionToken \in DOMAIN store
    THEN [found |-> TRUE, id |-> store[sessionToken].id,
          expires |-> store[sessionToken].expires,
          user |-> UserById(store[sessionToken].userId)]
    ELSE NullSession

\* prisma.session.update({where: {id}, data: {expires}})
update(store, id, expires) ==
    [t \in DOMAIN store |->
        IF store[t].id = id THEN [store[t] EXCEPT !.expires = expires]
        ELSE store[t]]

(***************************************************************************)
(* Requests.                                                               *)
(***************************************************************************)
Space == " "
NoHeaders == [n \in {} |-> <<>>]

\* values of the Authorization header: "Bearer <token>" for the four stored
\* tokens and for a token no session has, another scheme, and a header with
\* no second part
AuthorizationValues ==
    { Bearer \o <<Space>> \o tok : tok \in {TokenA, TokenM, TokenC, TokenD, TokenZ} }
    \cup { Basic \o <<Space>> \o TokenC, Bearer }

\* identity headers a client may send on its own
ClientIdentityHeaders ==
    ("x-user-id" :> <<"1">>) @@ ("x-user-role" :> "ADMIN") @@
    ("x-user-library-id" :> <<"9">>) @@ ("x-requested-user-id" :> <<"1">>)

\* every Authorization value alone, and the client's own identity headers
\* sent with no token, with the client's token and with the manager's
RequestHeaders ==
    {NoHeaders} \cup { [authorization |-> v] : v \in AuthorizationValues }
    \cup { a @@ ClientIdentityHeaders :
            a \in {NoHeaders} \cup { [authorization |-> Bearer \o <<Space>> \o tok] :
                                     tok \in {TokenC, TokenM} } }

Paths ==
    { PathBooks, PathBooks1, PathUsers, PathUsersMe, PathUsers2, PathUsers7,
      PathUsers8,
      PathUsersMeNotifications, PathUsers7Penalties, PathSales,
      PathReservations, PathFeedbacks, PathLibraries1, PathLoans1,
      PathPenalties1, RouteLogin, PathLoginX, PathApi, PathHome }

Requests == [headers : RequestHeaders, path : Paths, method : Methods]

\* requests of overlapping invocations: two sessions about to expire, one
\* of them also with the client's own identity headers, one path
ConcRequests ==
    [headers : { [authorization |-> Bearer \o <<Space>> \o tok] : tok \in {TokenA, TokenD} }
               \cup { [authorization |-> Bearer \o <<Space>> \o TokenA] @@ ClientIdentityHeaders },
     path : {PathBooks}, method : {"GET"}]

(***************************************************************************)
(* The middleware, step by step.                                           *)
(***************************************************************************)
publicRoutes ==
    << RouteLogin, RouteRegister, RouteSignin, RouteCallback,
       RouteProviders, RouteSession, RouteCsrf, RouteDebug >>

\* as isPublicRoute, the path compared with the routes for equality
isPublicRoute_Includes(path) ==
    \E i \in 1..Len(publicRoutes) : path = publicRoutes[i]

\* publicRoutes.some(route => path.startsWith(route))
isPublicRoute(path) ==
    \E i \in 1..Len(publicRoutes) : StartsWith(path, publicRoutes[i])

\* request.headers.get('authorization')?.split(' ')[1]; the empty sequence
\* stands for undefined and for the empty string, both falsy at line 33
sessionTokenOf(headers) ==
    IF "authorization" \notin DOMAIN headers THEN <<>>
    ELSE LET parts == Split(headers.authorization, Space)
         IN  IF Len(parts) < 2 THEN <<>> ELSE parts[2]

\* as isInvalid, the expiry not looked at
isInvalid_FoundOnly(session, t) == ~session.found

\* !session || new Date(session.expires) < new Date()
isInvalid(session, t) == ~session.found \/ session.expires < t

\* as needsRefresh, every valid session refreshed
needsRefresh_Always(session, t) == TRUE

\* session.expires.getTime() - Date.now() < 86400000
needsRefresh(session, t) == session.expires - t < OneDay

\* newExpires = new Date(); newExpires.setDate(newExpires.getDate() + 30)
newExpiresAt(t) == t + RenewSpan

\* the headers of lines 76-81
identityHeaders(headers, user) ==
    LET h1 == SetHeader(headers, "x-user-id", toString(user.id))
        h2 == SetHeader(h1, "x-user-role", user.role)
    IN  IF user.libraryId # NullLibrary
        THEN SetHeader(h2, "x-user-library-id", toString(user.libraryId))
        ELSE h2

userIdInPath(path) == Pop(Split(path, "/"))

\* as isSelfAccess, any user id accepted
isSelfAccess_Anyone(path, user) == TRUE

isSelfAccess(path, user) ==
    \/ userIdInPath(path) = Me
    \/ userIdInPath(path) = toString(user.id)
    \/ user.role = "ADMIN"

\* as requestedUserHeader, a header the request already has left as it is
requestedUserHeader_KeepClient(headers, path, user) ==
    IF userIdInPath(path) = Me /\ "x-requested-user-id" \notin DOMAIN headers
    THEN SetHeader(headers, "x-requested-user-id", toString(user.id))
    ELSE headers

\* lines 103-105
requestedUserHeader(headers, path, user) ==
    IF userIdInPath(path) = Me
    THEN SetHeader(headers, "x-requested-user-id", toString(user.id))
    ELSE headers

VARIABLES
    now,        \* the clock, in hours
    sessions,   \* the session table: sessionToken -> [id, userId, expires]
    mw,         \* the middleware invocations: position, request, locals, result
    query,      \* SpecPermission: the arguments of a hasPermission call
    answer,     \* SpecPermission: its result, "none" before the call
    login,      \* SpecLogin: the login invocation
    lastConnected,  \* SpecLogin: user id -> time of the last login, -1 for null
    books,      \* SpecBooks: the book table: id -> row
    bookSeq,    \* SpecBooks: the last id the book table has handed out
    bk,         \* SpecBooks: the invocations of the book handlers
    feedbacks,  \* SpecFeedback: the feedback table: id -> row
    fb,         \* SpecFeedback: the invocations of the feedback handler
    categories, \* SpecCategories: the category table: id -> row
    ct,         \* SpecCategories: the invocations of the category handlers
    authors,    \* SpecAuthors: the ids of the rows of the author table
    au,         \* SpecAuthors: the invocations of the author DELETE handler
    penalties,  \* SpecPenalties: the penalty table: id -> row
    pn,         \* SpecPenalties: the invocations of the penalty handler
    addresses,  \* SpecAddresses: the delivery-address table: id -> row
    ad          \* SpecAddresses: the invocations of the address handlers

bookVars == <<books, bookSeq, bk>>

feedbackVars == <<feedbacks, fb>>

categoryVars == <<categories, ct>>

authorVars == <<authors, au>>

penaltyVars == <<penalties, pn>>

addressVars == <<addresses, ad>>

\* the state of the handlers of categories, authors, penalties and addresses
restVars == <<categoryVars, authorVars, penaltyVars, addressVars>>

\* the state of the route handlers
handlerVars == <<login, lastConnected, bookVars, feedbackVars, restVars>>

vars == <<now, sessions, mw, query, answer, handlerVars>>

Procs == 1..NumProcs

NoRequest == [headers |-> NoHeaders, path |-> <<>>, method |-> ""]

\* an invocation that has not started.  out lists the responses the
\* invocation has returned; fwd holds the headers of the forwarded request;
\* reads, writes and permCalls count its findUnique, update and
\* hasPermission calls; checkedAt is its clock reading of lines 55-66;
\* threw names the awaited call that threw, if one did
Idle ==
    [pc |-> "idle", req |-> NoRequest, sessionToken |-> <<>>,
     session |-> NullSession, newExpires |-> 0, checkedAt |-> 0,
     out |-> <<>>, fwd |-> NoHeaders,
     reads |-> 0, writes |-> 0, permCalls |-> 0, threw |-> "none"]

NoQuery == [role |-> "", path |-> <<>>, method |-> ""]

(***************************************************************************)
(* The accounts the login handler reads.                                   *)
(***************************************************************************)
\* number of sessions the login handler may create
MaxLogins == 2

\* the stored form of a password
Hash(password) == <<"bcrypt", password>>

\* bcrypt.compare(password, user.password)
bcryptCompare(password, stored) == stored = Hash(password)

\* the user rows by email: the administrator has a password, the client
\* signs in with Google
Accounts ==
    ("admin@lib" :> [id |-> 1, password |-> Hash("secret"), isOAuth |-> FALSE]) @@
    ("client@lib" :> [id |-> 7, password |-> <<>>, isOAuth |-> TRUE])

NoAccount == [id |-> 0, password |-> <<>>, isOAuth |-> FALSE]

\* the body of a login request; an absent password is the empty string,
\* falsy at line 44 like undefined
LoginBodies ==
    [email : {"admin@lib", "client@lib", "nobody@lib"},
     password : {"", "secret", "wrong"},
     isOAuth : BOOLEAN]

NoBody == [email |-> "", password |-> "", isOAuth |-> FALSE]

\* the tokens crypto.randomUUID() may return
UUIDs == { <<"u">> \o toString(i) : i \in 1..MaxLogins }

\* a login that has not started.  status is the status of the response
\* (0: none yet), sessionToken the token of its body; rowsBefore and
\* touchedBefore keep the session table and lastConnected as they were
\* when the request came in
IdleLogin ==
    [pc |-> "idle", body |-> NoBody, found |-> FALSE, user |-> NoAccount,
     sessionToken |-> <<>>, expires |-> 0, issuedAt |-> 0,
     status |-> 0, returned |-> <<>>,
     rowsBefore |-> InitialSessions, touchedBefore |-> <<>>]

(***************************************************************************)
(* The book table and the requests of the book handlers                    *)
(* (POST /api/books, PATCH and DELETE /api/books/[bookId]).                *)
(***************************************************************************)
\* number of books the POST handler may create
MaxBooks == 1

\* a field the body does not carry (undefined), falsy like 0 and null
Undefined == 0

\* the rows of the library, author and category tables, by id
Libraries == {5, 6}
Authors == {1, 2}
Categories == {1}

BookRow(library, sellable) ==
    [libraryId |-> library, authorId |-> 1, categoryId |-> 1,
     status |-> "AVAILABLE", isSellable |-> sellable]

\* the book rows at the start: id -> row
InitialBooks == (1 :> BookRow(5, FALSE)) @@ (2 :> BookRow(6, TRUE))

\* the result of a findUnique that found no book (null)
NoBook == [found |-> FALSE, row |-> BookRow(Undefined, FALSE)]

\* a request body and what the schema makes of it: valid is the outcome
\* of safeParse, the other fields are validation.data
Body(library, author, category, status) ==
    [valid |-> TRUE, libraryId |-> library, authorId |-> author,
     categoryId |-> category, status |-> status]

InvalidBody == [Body(Undefined, Undefined, Undefined, "") EXCEPT !.valid = FALSE]

CreateBodies ==
    { Body(5, 1, 1, ""), Body(6, 1, 1, ""), Body(8, 1, 1, ""),
      Body(5, 9, 1, ""), InvalidBody }

UpdateBodies ==
    { Body(5, Undefined, Undefined, ""), Body(6, Undefined, Undefined, ""),
      Body(8, Undefined, Undefined, ""),
      Body(Undefined, 9, Undefined, ""), Body(Undefined, Undefined, 9, ""),
      Body(Undefined, Undefined, Undefined, "SOLD"),
      InvalidBody }

\* the headers a book handler receives: those the middleware sets for each
\* user, none at all, and a user id with no role
BookCallers ==
    { identityHeaders(NoHeaders, u) : u \in Users }
        \cup { NoHeaders, SetHeader(NoHeaders, "x-user-id", toString(7)) }

\* the values of params.bookId
BookParams == { <<"1">>, <<"2">>, <<"9">>, <<"x">> }

BookRequests ==
    [op : {"POST"}, headers : BookCallers, param : {<<>>}, body : CreateBodies]
        \cup [op : {"PATCH"}, headers : BookCallers, param : BookParams,
              body : UpdateBodies]
        \cup [op : {"DELETE"}, headers : BookCallers, param : BookParams,
              body : {InvalidBody}]

NoBookRequest ==
    [op |-> "", headers |-> NoHeaders, param |-> <<>>, body |-> InvalidBody]

\* the requests of the overlapping invocations: the administrator and the
\* manager of library 5 on book 1, and the creation of a book
ConcBookRequests ==
    [op : {"PATCH"},
     headers : {identityHeaders(NoHeaders, u) : u \in {UserById(1), UserById(2)}},
     param : {<<"1">>},
     body : {Body(5, Undefined, Undefined, ""), Body(6, Undefined, Undefined, "")}]
        \cup [op : {"DELETE"},
              headers : {identityHeaders(NoHeaders, u) : u \in {UserById(1), UserById(2)}},
              param : {<<"1">>}, body : {InvalidBody}]
        \cup [op : {"POST"}, headers : {identityHeaders(NoHeaders, UserById(2))},
              param : {<<>>}, body : {Body(5, 1, 1, "")}]

\* the overlapping invocations of the book handlers
Handlers == {"h1", "h2"}

\* an invocation that has not started.  bookId is the parsed params.bookId,
\* existing the row read at the start (existingBook), status the status of
\* the response (0: none yet), wrote whether the invocation has written
\* to the book table
IdleBook ==
    [pc |-> "idle", req |-> NoBookRequest, bookId |-> 0, existing |-> NoBook,
     status |-> 0, wrote |-> FALSE]

(***************************************************************************)
(* The feedback table and the requests of the feedback handler             *)
(* (POST on the feedbacks of a book).                                      *)
(***************************************************************************)
\* number of feedbacks the handler may create
MaxFeedbacks == 2

\* the headers the handler receives: those the middleware sets for the
\* client and for the manager, and none
FeedbackCallers ==
    { identityHeaders(NoHeaders, UserById(7)),
      identityHeaders(NoHeaders, UserById(2)), NoHeaders }

\* a request: its headers, params.bookId and whether feedbackSchema accepts
\* its body
FeedbackRequests ==
    [headers : FeedbackCallers, param : {<<"1">>, <<"9">>, <<"x">>},
     valid : BOOLEAN]

NoFeedbackRequest == [headers |-> NoHeaders, param |-> <<>>, valid |-> FALSE]

\* an invocation that has not started.  bookId is the parsed params.bookId,
\* status the status of the response (0: none yet), wrote whether the
\* invocation has created a feedback, rowsBefore the feedback table as it
\* was when the request came in
IdleFeedback ==
    [pc |-> "idle", req |-> NoFeedbackRequest, bookId |-> 0, status |-> 0,
     wrote |-> FALSE, rowsBefore |-> <<>>]

(***************************************************************************)
(* The category table and the requests of the category handlers            *)
(* (POST on the categories, PATCH on a category).                          *)
(***************************************************************************)
\* number of categories the POST handler may create
MaxCategories == 2

\* the category rows at the start: id -> row; ids are handed out in
\* sequence and no row is deleted here, so that the table is a sequence
InitialCategories == << [name |-> "Roman"] >>

\* the result of a findUnique that found no category (null)
NoCategory == [found |-> FALSE, row |-> [name |-> ""]]

\* the names a body may carry; the empty string stands for a body without
\* a name, which categorySchema refuses and categorySchema.partial() lets
\* through
CategoryNames == {"", "Roman", "Essai"}

\* the headers the handlers receive: those the middleware sets for the
\* administrator and for the client, and none
CategoryCallers ==
    { identityHeaders(NoHeaders, UserById(1)),
      identityHeaders(NoHeaders, UserById(7)), NoHeaders }

CategoryRequests ==
    [op : {"POST"}, headers : CategoryCallers, param : {<<>>},
     name : CategoryNames]
        \cup [op : {"PATCH"}, headers : CategoryCallers,
              param : {<<"1">>, <<"2">>, <<"x">>}, name : CategoryNames]

NoCategoryRequest ==
    [op |-> "", headers |-> NoHeaders, param |-> <<>>, name |-> ""]

\* the requests of the overlapping invocations, all by the administrator
ConcCategoryRequests ==
    [op : {"POST"}, headers : {identityHeaders(NoHeaders, UserById(1))},
     param : {<<>>}, name : {"Essai"}]
        \cup [op : {"PATCH"}, headers : {identityHeaders(NoHeaders, UserById(1))},
              param : {<<"1">>}, name : {"", "Essai"}]

\* an invocation that has not started.  categoryId is the parsed
\* params.categoryId, existing the row read at line 171
\* (existingCategory), status the status of the response (0: none yet),
\* wrote whether the invocation has written to the table, rowsBefore the
\* table as it was when the request came in
IdleCategory ==
    [pc |-> "idle", req |-> NoCategoryRequest, categoryId |-> 0,
     existing |-> NoCategory, status |-> 0, wrote |-> FALSE,
     rowsBefore |-> <<>>]

(***************************************************************************)
(* The requests of the author DELETE handler; the author table is the set  *)
(* of the ids of its rows.                                                  *)
(***************************************************************************)
\* the headers the handler receives: those the middleware sets for the
\* administrator and for the manager, and none
AuthorCallers ==
    { identityHeaders(NoHeaders, UserById(1)),
      identityHeaders(NoHeaders, UserById(2)), NoHeaders }

\* a request: its headers and params.authorId
AuthorRequests ==
    [headers : AuthorCallers, param : {<<"1">>, <<"2">>, <<"9">>, <<"x">>}]

NoAuthorRequest == [headers |-> NoHeaders, param |-> <<>>]

\* the requests of the book handlers that overlap the deletion of an
\* author: a book is created for author 2, book 1 is given author 2, book 1
\* is deleted
AuthorBookRequests ==
    { [op |-> "POST", headers |-> identityHeaders(NoHeaders, UserById(1)),
       param |-> <<>>, body |-> Body(5, 2, 1, "")],
      [op |-> "PATCH", headers |-> identityHeaders(NoHeaders, UserById(1)),
       param |-> <<"1">>, body |-> Body(Undefined, 2, Undefined, "")],
      [op |-> "DELETE", headers |-> identityHeaders(NoHeaders, UserById(1)),
       param |-> <<"1">>, body |-> InvalidBody] }

\* an invocation that has not started.  authorId is the parsed
\* params.authorId, status the status of the response (0: none yet), wrote
\* whether the invocation has deleted a row
IdleAuthor ==
    [pc |-> "idle", req |-> NoAuthorRequest, authorId |-> 0, status |-> 0,
     wrote |-> FALSE]

(***************************************************************************)
(* The penalty table and the requests of the pay handler (PATCH on a       *)
(* penalty).                                                                *)
(***************************************************************************)
\* the penalty rows at the start: id -> row.  paid is the column; acks
\* counts the 200 responses given for the row so far
InitialPenalties ==
    (1 :> [paid |-> FALSE, acks |-> 0]) @@ (2 :> [paid |-> TRUE, acks |-> 1])

\* the headers the handler receives: those the middleware sets for each
\* user, and none
PenaltyCallers == { identityHeaders(NoHeaders, u) : u \in Users } \cup { NoHeaders }

\* a request: its headers and params.id
PenaltyRequests ==
    [headers : PenaltyCallers, param : {<<"1">>, <<"2">>, <<"9">>, <<"x">>}]

NoPenaltyRequest == [headers |-> NoHeaders, param |-> <<>>]

\* an invocation that has not started.  penaltyId is the parsed params.id,
\* status the status of the response (0: none yet), wrote whether the
\* invocation has updated a row, paidBefore whether the penalty of the
\* request was paid when the request came in
IdlePenalty ==
    [pc |-> "idle", req |-> NoPenaltyRequest, penaltyId |-> 0, status |-> 0,
     wrote |-> FALSE, paidBefore |-> FALSE]

(***************************************************************************)
(* The delivery-address table and the requests of the address handlers     *)
(* (POST and PATCH on the addresses of a user).                            *)
(***************************************************************************)
\* number of addresses the POST handler may create
MaxAddresses == 1

\* a phone the body does not carry (undefined), and the null column
NoPhone == "undefined"
NullPhone == "null"

AddressRow(userId, address, city, country, phone) ==
    [userId |-> userId, address |-> address, city |-> city,
     country |-> country, phone |-> phone]

\* the address rows at the start: id -> row; ids are handed out in
\* sequence and no row is deleted here, so that the table is a sequence.
\* Address 1 is the client's, address 2 the delivery person's
InitialAddresses ==
    << AddressRow(7, "a", "c", "k", NullPhone),
       AddressRow(17, "a", "c", "k", "p") >>

\* a request body; the empty string stands for a text field the body does
\* not carry, 0 for an absent addressId, falsy alike
AddressBody(addressId, address, city, country, phone) ==
    [addressId |-> addressId, address |-> address, city |-> city,
     country |-> country, phone |-> phone]

AddressCreateBodies ==
    { AddressBody(0, "b", "d", "k", "q"), AddressBody(0, "b", "d", "k", NoPhone),
      AddressBody(0, "b", "", "k", "q") }

AddressUpdateBodies ==
    { AddressBody(1, "b", "", "", NoPhone), AddressBody(2, "", "d", "", ""),
      AddressBody(9, "b", "", "", NoPhone), AddressBody(0, "b", "", "", NoPhone) }

\* the headers the handlers receive: those the middleware sets for the
\* administrator, the client and the delivery person, and none
AddressCallers ==
    { identityHeaders(NoHeaders, UserById(1)),
      identityHeaders(NoHeaders, UserById(7)),
      identityHeaders(NoHeaders, UserById(17)), NoHeaders }

\* the values of params.id
AddressParams == { Me, <<"7">>, <<"1", "7">>, <<"x">> }

AddressRequests ==
    [op : {"POST"}, headers : AddressCallers, param : AddressParams,
     body : AddressCreateBodies]
        \cup [op : {"PATCH"}, headers : AddressCallers, param : AddressParams,
              body : AddressUpdateBodies]

NoAddressRequest ==
    [op |-> "", headers |-> NoHeaders, param |-> <<>>,
     body |-> AddressBody(0, "", "", "", NoPhone)]

\* an invocation that has not started.  targetUserId is the user of line
\* 192 (PATCH) or 119 (POST), status the status of the response (0: none
\* yet), wrote whether the invocation has written to the table, rowsBefore
\* the table as it was when the request came in
IdleAddress ==
    [pc |-> "idle", req |-> NoAddressRequest, targetUserId |-> NaN,
     status |-> 0, wrote |-> FALSE, rowsBefore |-> <<>>]

InitHandlers ==
    /\ login = IdleLogin
    /\ lastConnected = [u \in {a.id : a \in Users} |-> -1]
    /\ books = InitialBooks
    /\ bookSeq = Cardinality(DOMAIN InitialBooks)
    /\ bk = [h \in Handlers |-> IdleBook]
    /\ feedbacks = <<>>
    /\ fb = [h \in Handlers |-> IdleFeedback]
    /\ categories = InitialCategories
    /\ ct = [h \in Handlers |-> IdleCategory]
    /\ authors = Authors
    /\ au = [h \in Handlers |-> IdleAuthor]
    /\ penalties = InitialPenalties
    /\ pn = [h \in Handlers |-> IdlePenalty]
    /\ addresses = InitialAddresses
    /\ ad = [h \in Handlers |-> IdleAddress]

Init ==
    /\ now = 0
    /\ sessions = InitialSessions
    /\ mw = [p \in Procs |-> Idle]
    /\ query = NoQuery
    /\ answer = "none"
    /\ InitHandlers

\* return new NextResponse(..., {status})
Reject(m, status) == [m EXCEPT !.pc = "done", !.out = Append(@, status)]

\* return NextResponse.next(...) with the given request headers
Forward(m, headers) ==
    [m EXCEPT !.pc = "done", !.out = Append(@, "forward"), !.fwd = headers]

\* as Start, the lookup made whether or not a token was found
Start_NoTokenCheck(r) ==
    LET m == [Idle EXCEPT !.req = r]
    IN  IF isPublicRoute(r.path) THEN Forward(m, r.headers)
        ELSE [m EXCEPT !.pc = "find", !.sessionToken = sessionTokenOf(r.headers)]

\* lines 7-38: the public routes and the token
Start(r) ==
    LET m == [Idle EXCEPT !.req = r]
    IN  IF isPublicRoute(r.path) THEN Forward(m, r.headers)
        ELSE IF sessionTokenOf(r.headers) = <<>> THEN Reject(m, "401")
        ELSE [m EXCEPT !.pc = "find", !.sessionToken = sessionTokenOf(r.headers)]

\* lines 75-119: identity headers, self-access rule, permission check
Authorize(m) ==
    LET user == m.session.user
        path == m.req.path
        requestHeaders == identityHeaders(m.req.headers, user)
    IN  IF StartsWith(path, UsersPrefix) /\ ~isSelfAccess(path, user)
        THEN Reject(m, "403")
        ELSE LET checked == [m EXCEPT !.permCalls = @ + 1]
                 headers == IF StartsWith(path, UsersPrefix)
                            THEN requestedUserHeader(requestHeaders, path, user)
                            ELSE requestHeaders
             IN  IF ~hasPermission(user.role, path, m.req.method)
                 THEN Reject(checked, "403")
                 ELSE Forward(checked, headers)

\* as Validate, the session refreshed before its validity is looked at
Validate_RefreshFirst(m, t) ==
    LET c == [m EXCEPT !.checkedAt = t]
    IN  IF m.session.found /\ needsRefresh(m.session, t)
        THEN [c EXCEPT !.pc = "update", !.newExpires = newExpiresAt(t)]
        ELSE IF isInvalid(m.session, t) THEN Reject(c, "401")
        ELSE Authorize(c)

\* lines 55-68: after the lookup, up to the update
Validate(m, t) ==
    LET c == [m EXCEPT !.checkedAt = t]
    IN  IF isInvalid(m.session, t) THEN Reject(c, "401")
        ELSE IF needsRefresh(m.session, t)
        THEN [c EXCEPT !.pc = "update", !.newExpires = newExpiresAt(t)]
        ELSE Authorize(c)

Begin(p, r) ==
    /\ mw[p].pc = "idle"
    /\ mw' = [mw EXCEPT ![p] = Start(r)]
    /\ UNCHANGED <<now, sessions, query, answer, handlerVars>>

\* line 42: the session row and its user are read
Find(p) ==
    /\ mw[p].pc = "find"
    /\ mw' = [mw EXCEPT ![p] =
                [@ EXCEPT !.pc = "check", !.reads = @ + 1,
                          !.session = findUnique(sessions, mw[p].sessionToken)]]
    /\ UNCHANGED <<now, sessions, query, answer, handlerVars>>

\* as Catch, a failing call treated as a session that is not there
Catch_AsNoSession(m, call) == Reject([m EXCEPT !.threw = call], "401")

\* lines 120-126: the catch block, entered from the call that threw
Catch(m, call) == Reject([m EXCEPT !.threw = call], "500")

\* line 42 throws
FindFail(p) ==
    /\ mw[p].pc = "find"
    /\ mw' = [mw EXCEPT ![p] = Catch([@ EXCEPT !.reads = @ + 1], "findUnique")]
    /\ UNCHANGED <<now, sessions, query, answer, handlerVars>>

Check(p) ==
    /\ mw[p].pc = "check"
    /\ mw' = [mw EXCEPT ![p] = Validate(@, now)]
    /\ UNCHANGED <<now, sessions, query, answer, handlerVars>>

\* as Update, the write started and not awaited: the function goes on
\* before the session table has changed
Update_NotAwaited(p) ==
    /\ mw[p].pc = "update"
    /\ mw' = [mw EXCEPT ![p] = Authorize([@ EXCEPT !.writes = @ + 1])]
    /\ UNCHANGED <<now, sessions, query, answer, handlerVars>>

\* lines 69-72, then the rest of the function
Update(p) ==
    /\ mw[p].pc = "update"
    /\ sessions' = update(sessions, mw[p].session.id, mw[p].newExpires)
    /\ mw' = [mw EXCEPT ![p] = Authorize([@ EXCEPT !.writes = @ + 1])]
    /\ UNCHANGED <<now, query, answer, handlerVars>>

\* as UpdateFail, the failure of the write logged and the request let
\* through
UpdateFail_Swallowed(p) ==
    /\ mw[p].pc = "update"
    /\ mw' = [mw EXCEPT ![p] = Authorize([@ EXCEPT !.threw = "update"])]
    /\ UNCHANGED <<now, sessions, query, answer, handlerVars>>

\* line 69 throws.  The update is one statement on one row: the database
\* has either not applied it or applied it whole (the error reaching the
\* caller after the commit)
UpdateFail(p) ==
    /\ mw[p].pc = "update"
    /\ \E committed \in BOOLEAN :
          sessions' = IF committed
                      THEN update(sessions, mw[p].session.id, mw[p].newExpires)
                      ELSE sessions
    /\ mw' = [mw EXCEPT ![p] = Catch(@, "update")]
    /\ UNCHANGED <<now, query, answer, handlerVars>>

\* the response has been delivered; the invocation's locals are gone
Return(p) ==
    /\ mw[p].pc = "done"
    /\ mw' = [mw EXCEPT ![p] = Idle]
    /\ UNCHANGED <<now, sessions, query, answer, handlerVars>>

Tick ==
    /\ now < MaxNow
    /\ now' = now + TickHours
    /\ UNCHANGED <<sessions, mw, query, answer, handlerVars>>

Step(p) ==
    \/ Find(p)
    \/ FindFail(p)
    \/ Check(p)
    \/ Update(p)
    \/ UpdateFail(p)
    \/ Return(p)

\* one invocation at a time, over all the requests
Next ==
    \/ \E r \in Requests : Begin(1, r)
    \/ Step(1)
    \/ Tick

Spec == Init /\ [][Next]_vars

\* overlapping invocations on the same sessions
NextConc ==
    \/ \E p \in Procs : \E r \in ConcRequests : Begin(p, r)
    \/ \E p \in Procs : Step(p)
    \/ Tick

SpecConc == Init /\ [][NextConc]_vars

(***************************************************************************)
(* hasPermission as a function of its arguments alone.                     *)
(***************************************************************************)
\* a role the table has no rule list for
OtherRole == "GUEST"

Queries == [role : Roles \cup {OtherRole}, path : Paths, method : Methods]

InitPermission ==
    /\ now = 0
    /\ sessions = InitialSessions
    /\ mw = [p \in Procs |-> Idle]
    /\ query \in Queries
    /\ answer = "none"
    /\ InitHandlers

Evaluate ==
    /\ answer = "none"
    /\ answer' = IF hasPermission(query.role, query.path, query.method)
                 THEN "true" ELSE "false"
    /\ UNCHANGED <<now, sessions, mw, query, handlerVars>>

NextPermission == Evaluate

SpecPermission == InitPermission /\ [][NextPermission]_vars

(***************************************************************************)
(* The login handler (POST /api/auth/login).                               *)
(***************************************************************************)
\* NextResponse.json(..., {status})
Respond(l, status) == [l EXCEPT !.pc = "done", !.status = status]

\* lines 61-63: the token and the expiry of the session to create
Issue(l, t) ==
    [l EXCEPT !.pc = "create", !.issuedAt = t, !.expires = t + RenewSpan]

\* lines 22-49: the checks made on the user row before the password is
\* compared
Screen(l, t) ==
    IF ~l.found THEN Respond(l, 404)
    ELSE IF l.body.isOAuth /\ ~l.user.isOAuth THEN Respond(l, 403)
    ELSE IF l.body.isOAuth THEN Issue(l, t)
    ELSE IF l.user.isOAuth THEN Respond(l, 403)
    ELSE IF l.body.password = "" THEN Respond(l, 400)
    ELSE [l EXCEPT !.pc = "compare"]

\* line 7: the body is parsed
LoginBegin(b) ==
    /\ login.pc = "idle"
    /\ Cardinality(DOMAIN sessions) < Cardinality(DOMAIN InitialSessions) + MaxLogins
    /\ login' = [IdleLogin EXCEPT !.pc = "findUser", !.body = b,
                                  !.rowsBefore = sessions,
                                  !.touchedBefore = lastConnected]
    /\ UNCHANGED <<now, sessions, mw, query, answer, lastConnected, bookVars, feedbackVars, restVars>>

\* lines 9-49
LoginFindUser ==
    /\ login.pc = "findUser"
    /\ login' = Screen([login EXCEPT
                          !.found = login.body.email \in DOMAIN Accounts,
                          !.user = IF login.body.email \in DOMAIN Accounts
                                   THEN Accounts[login.body.email]
                                   ELSE NoAccount], now)
    /\ UNCHANGED <<now, sessions, mw, query, answer, lastConnected, bookVars, feedbackVars, restVars>>

\* as LoginCompare, the session row written before the password is known
\* to match
LoginCompare_CreateFirst ==
    /\ login.pc = "compare"
    /\ \E token \in UUIDs \ DOMAIN sessions :
          /\ sessions' = (token :> [id |-> Cardinality(DOMAIN sessions) + 1,
                                    userId |-> login.user.id,
                                    expires |-> now + RenewSpan]) @@ sessions
          /\ login' = IF bcryptCompare(login.body.password, login.user.password)
                      THEN [login EXCEPT !.pc = "touch", !.issuedAt = now,
                                         !.expires = now + RenewSpan,
                                         !.sessionToken = token]
                      ELSE Respond(login, 401)
    /\ UNCHANGED <<now, mw, query, answer, lastConnected, bookVars, feedbackVars, restVars>>

\* lines 51-63
LoginCompare ==
    /\ login.pc = "compare"
    /\ login' = IF bcryptCompare(login.body.password, login.user.password)
                THEN Issue(login, now)
                ELSE Respond(login, 401)
    /\ UNCHANGED <<now, sessions, mw, query, answer, lastConnected, bookVars, feedbackVars, restVars>>

\* lines 61-71: a row with a fresh token; ids are handed out in sequence
LoginCreate ==
    /\ login.pc = "create"
    /\ \E token \in UUIDs \ DOMAIN sessions :
          /\ sessions' = (token :> [id |-> Cardinality(DOMAIN sessions) + 1,
                                    userId |-> login.user.id,
                                    expires |-> login.expires]) @@ sessions
          /\ login' = [login EXCEPT !.pc = "touch", !.sessionToken = token]
    /\ UNCHANGED <<now, mw, query, answer, lastConnected, bookVars, feedbackVars, restVars>>

\* lines 74-89
LoginTouch ==
    /\ login.pc = "touch"
    /\ lastConnected' = [lastConnected EXCEPT ![login.user.id] = now]
    /\ login' = [Respond(login, 200) EXCEPT !.returned = login.sessionToken]
    /\ UNCHANGED <<now, sessions, mw, query, answer, bookVars, feedbackVars, restVars>>

\* an awaited call throws before it has written anything: lines 91-96
LoginThrow ==
    /\ login.pc \in {"findUser", "compare", "create", "touch"}
    /\ login' = Respond(login, 500)
    /\ UNCHANGED <<now, sessions, mw, query, answer, lastConnected, bookVars, feedbackVars, restVars>>

LoginReturn ==
    /\ login.pc = "done"
    /\ login' = IdleLogin
    /\ UNCHANGED <<now, sessions, mw, query, answer, lastConnected, bookVars, feedbackVars, restVars>>

NextLogin ==
    \/ \E b \in LoginBodies : LoginBegin(b)
    \/ LoginFindUser
    \/ LoginCompare
    \/ LoginCreate
    \/ LoginTouch
    \/ LoginThrow
    \/ LoginReturn
    \/ Tick

SpecLogin == Init /\ [][NextLogin]_vars

(***************************************************************************)
(* The book handlers.                                                      *)
(***************************************************************************)
\* Headers.get of a header holding an id; the empty string stands for
\* null, falsy alike
get(headers, name) == IF name \in DOMAIN headers THEN headers[name] ELSE <<>>

\* headers.get('x-user-role')
getRole(headers) ==
    IF "x-user-role" \in DOMAIN headers THEN headers["x-user-role"] ELSE ""

\* the truthiness of a string
Truthy(str) == str # ""

\* n !== p for a number n and a result p of parseInt
StrictNotEqual(n, p) == p.nan \/ n # p.value

\* parseInt(userLibraryId || '0')
userLibrary(headers) ==
    LET userLibraryId == get(headers, "x-user-library-id")
    IN  parseInt(IF userLibraryId = <<>> THEN <<"0">> ELSE userLibraryId)

\* prisma.book.findUnique({where: {id}})
findBook(table, id) ==
    IF id \in DOMAIN table THEN [found |-> TRUE, row |-> table[id]] ELSE NoBook

\* the row after prisma.book.update({data}): the fields the data carries
\* replace those of the row
updatedRow(row, data) ==
    [row EXCEPT
        !.libraryId = IF data.libraryId # Undefined THEN data.libraryId ELSE @,
        !.authorId = IF data.authorId # Undefined THEN data.authorId ELSE @,
        !.categoryId = IF data.categoryId # Undefined THEN data.categoryId ELSE @,
        !.status = IF data.status # "" THEN data.status ELSE @]

\* the row prisma.book.create({data}) inserts
createdRow(data) ==
    [libraryId |-> data.libraryId, authorId |-> data.authorId,
     categoryId |-> data.categoryId, status |-> "AVAILABLE",
     isSellable |-> FALSE]

\* books/route.ts line 148: userRole === UserRole.ADMIN || UserRole.MANAGER,
\* whose value is true or the string 'MANAGER'
createRoleTest(userRole) == userRole = "ADMIN" \/ Truthy("MANAGER")

\* books/route.ts lines 141-174: POST up to its first store call
createChecks(b) ==
    LET headers == b.req.headers
        data == b.req.body
    IN  IF get(headers, "x-user-id") = <<>> \/ ~createRoleTest(getRole(headers))
        THEN Respond(b, 403)
        ELSE IF ~data.valid THEN Respond(b, 400)
        ELSE IF /\ getRole(headers) = "MANAGER"
                /\ StrictNotEqual(data.libraryId, userLibrary(headers))
        THEN Respond(b, 403)
        ELSE [b EXCEPT !.pc = "relations"]

\* books/[bookId]/route.ts lines 97-132: PATCH up to its first store call
updateChecks(b) ==
    LET headers == b.req.headers
        bookId == parseInt(b.req.param)
    IN  IF bookId.nan THEN Respond(b, 400)
        ELSE IF get(headers, "x-user-id") = <<>> \/ ~Truthy(getRole(headers))
        THEN Respond(b, 401)
        ELSE IF getRole(headers) # "ADMIN" /\ getRole(headers) # "MANAGER"
        THEN Respond(b, 403)
        ELSE IF ~b.req.body.valid THEN Respond(b, 400)
        ELSE [b EXCEPT !.pc = "find", !.bookId = bookId.value]

\* books/[bookId]/route.ts lines 245-261: DELETE up to its first store call
deleteChecks(b) ==
    LET headers == b.req.headers
        bookId == parseInt(b.req.param)
    IN  IF bookId.nan THEN Respond(b, 400)
        ELSE IF \/ get(headers, "x-user-id") = <<>>
                \/ ~(getRole(headers) = "ADMIN" \/ getRole(headers) = "MANAGER")
        THEN Respond(b, 403)
        ELSE [b EXCEPT !.pc = "find", !.bookId = bookId.value]

\* the number of invocations that are on their way to prisma.book.create
PendingCreates ==
    Cardinality({h \in Handlers :
                    bk[h].req.op = "POST" /\ bk[h].pc \in {"relations", "write"}})

\* a request comes in and runs to its first store call
BookBegin(h, r) ==
    /\ bk[h].pc = "idle"
    /\ r.op = "POST" =>
          bookSeq + PendingCreates < Cardinality(DOMAIN InitialBooks) + MaxBooks
    /\ LET b == [IdleBook EXCEPT !.req = r]
       IN  bk' = [bk EXCEPT ![h] =
                     CASE r.op = "POST" -> createChecks(b)
                       [] r.op = "PATCH" -> updateChecks(b)
                       [] r.op = "DELETE" -> deleteChecks(b)]
    /\ UNCHANGED <<now, sessions, mw, query, answer, login, lastConnected,
                   books, bookSeq, feedbackVars, restVars>>

\* books/[bookId]/route.ts lines 135-173: what PATCH makes of the row read
updateScreen(b) ==
    LET headers == b.req.headers
        data == b.req.body
        existingBook == b.existing.row
        isAdmin == getRole(headers) = "ADMIN"
        isManagerOfLibrary ==
            /\ getRole(headers) = "MANAGER"
            /\ ~StrictNotEqual(existingBook.libraryId, userLibrary(headers))
    IN  IF ~b.existing.found THEN Respond(b, 404)
        ELSE IF ~isAdmin /\ ~isManagerOfLibrary THEN Respond(b, 403)
        ELSE IF /\ getRole(headers) = "MANAGER"
                /\ data.libraryId # Undefined
                /\ data.libraryId # existingBook.libraryId
        THEN Respond(b, 403)
        ELSE IF /\ getRole(headers) = "MANAGER"
                /\ data.status = "SOLD"
                /\ ~existingBook.isSellable
        THEN Respond(b, 403)
        ELSE [b EXCEPT !.pc = "relations"]

\* books/[bookId]/route.ts lines 264-276: what DELETE makes of the row read
deleteScreen(b) ==
    IF ~b.existing.found THEN Respond(b, 404)
    ELSE IF /\ getRole(b.req.headers) = "MANAGER"
            /\ StrictNotEqual(b.existing.row.libraryId, userLibrary(b.req.headers))
    THEN Respond(b, 403)
    ELSE [b EXCEPT !.pc = "write"]

\* existingBook = await prisma.book.findUnique(...) and the checks on it
BookFind(h) ==
    /\ bk[h].pc = "find"
    /\ LET b == [bk[h] EXCEPT !.existing = findBook(books, bk[h].bookId)]
       IN  bk' = [bk EXCEPT ![h] = IF b.req.op = "PATCH" THEN updateScreen(b)
                                   ELSE deleteScreen(b)]
    /\ UNCHANGED <<now, sessions, mw, query, answer, login, lastConnected,
                   books, bookSeq, feedbackVars, restVars>>

\* books/route.ts lines 177-195
createRelations(b) ==
    LET data == b.req.body
    IN  IF \/ data.authorId \notin authors
           \/ data.categoryId \notin Categories
           \/ data.libraryId \notin Libraries
        THEN Respond(b, 404)
        ELSE [b EXCEPT !.pc = "write"]

\* books/[bookId]/route.ts lines 176-195
updateRelations(b) ==
    LET data == b.req.body
        isAdmin == getRole(b.req.headers) = "ADMIN"
    IN  IF data.authorId # Undefined /\ data.authorId \notin authors
        THEN Respond(b, 404)
        ELSE IF data.categoryId # Undefined /\ data.categoryId \notin Categories
        THEN Respond(b, 404)
        ELSE IF data.libraryId # Undefined /\ ~isAdmin
                   /\ data.libraryId \notin Libraries
        THEN Respond(b, 404)
        ELSE [b EXCEPT !.pc = "write"]

\* the lookups of the rows the body refers to
BookRelations(h) ==
    /\ bk[h].pc = "relations"
    /\ bk' = [bk EXCEPT ![h] = IF bk[h].req.op = "POST"
                               THEN createRelations(bk[h])
                               ELSE updateRelations(bk[h])]
    /\ UNCHANGED <<now, sessions, mw, query, answer, login, lastConnected,
                   books, bookSeq, feedbackVars, restVars>>

\* books/route.ts line 198: prisma.book.create
BookCreate(h) ==
    /\ bk[h].pc = "write"
    /\ bk[h].req.op = "POST"
    /\ bookSeq' = bookSeq + 1
    /\ books' = (bookSeq' :> createdRow(bk[h].req.body)) @@ books
    /\ bk' = [bk EXCEPT ![h].pc = "log", ![h].wrote = TRUE]
    /\ UNCHANGED <<now, sessions, mw, query, answer, login, lastConnected,
                   feedbackVars, restVars>>

\* books/[bookId]/route.ts line 198: prisma.book.update, which throws when
\* the row is gone
BookUpdate(h) ==
    /\ bk[h].pc = "write"
    /\ bk[h].req.op = "PATCH"
    /\ IF bk[h].bookId \in DOMAIN books
       THEN /\ books' = [books EXCEPT ![bk[h].bookId] =
                            updatedRow(@, bk[h].req.body)]
            /\ bk' = [bk EXCEPT ![h].pc = "log", ![h].wrote = TRUE]
       ELSE /\ bk' = [bk EXCEPT ![h] = Respond(@, 500)]
            /\ UNCHANGED books
    /\ UNCHANGED <<now, sessions, mw, query, answer, login, lastConnected,
                   bookSeq, feedbackVars, restVars>>

\* books/[bookId]/route.ts line 278: prisma.book.delete, which throws when
\* the row is gone
BookDelete(h) ==
    /\ bk[h].pc = "write"
    /\ bk[h].req.op = "DELETE"
    /\ IF bk[h].bookId \in DOMAIN books
       THEN /\ books' = [id \in DOMAIN books \ {bk[h].bookId} |-> books[id]]
            /\ bk' = [bk EXCEPT ![h].pc = "log", ![h].wrote = TRUE]
       ELSE /\ bk' = [bk EXCEPT ![h] = Respond(@, 500)]
            /\ UNCHANGED books
    /\ UNCHANGED <<now, sessions, mw, query, answer, login, lastConnected,
                   bookSeq, feedbackVars, restVars>>

\* await logAction(...) and the response: 201 for POST, 200 otherwise
BookLog(h) ==
    /\ bk[h].pc = "log"
    /\ bk' = [bk EXCEPT ![h] =
                 Respond(@, IF bk[h].req.op = "POST" THEN 201 ELSE 200)]
    /\ UNCHANGED <<now, sessions, mw, query, answer, login, lastConnected,
                   books, bookSeq, feedbackVars, restVars>>

\* an awaited call throws before it has written anything: the catch block
BookThrow(h) ==
    /\ bk[h].pc \in {"find", "relations", "write", "log"}
    /\ bk' = [bk EXCEPT ![h] = Respond(@, 500)]
    /\ UNCHANGED <<now, sessions, mw, query, answer, login, lastConnected,
                   books, bookSeq, feedbackVars, restVars>>

BookReturn(h) ==
    /\ bk[h].pc = "done"
    /\ bk' = [bk EXCEPT ![h] = IdleBook]
    /\ UNCHANGED <<now, sessions, mw, query, answer, login, lastConnected,
                   books, bookSeq, feedbackVars, restVars>>

BookStep(h) ==
    \/ BookFind(h)
    \/ BookRelations(h)
    \/ BookCreate(h)
    \/ BookUpdate(h)
    \/ BookDelete(h)
    \/ BookLog(h)
    \/ BookThrow(h)
    \/ BookReturn(h)

\* one invocation at a time, over all the requests
NextBooks ==
    \/ \E r \in BookRequests : BookBegin("h1", r)
    \/ BookStep("h1")

SpecBooks == Init /\ [][NextBooks]_vars

\* overlapping invocations on the same book table
NextBooksConc ==
    \/ \E h \in Handlers : \E r \in ConcBookRequests : BookBegin(h, r)
    \/ \E h \in Handlers : BookStep(h)

SpecBooksConc == Init /\ [][NextBooksConc]_vars

(***************************************************************************)
(* The feedback handler.                                                   *)
(***************************************************************************)
\* lines 233-251: up to the first store call
feedbackChecks(f) ==
    LET headers == f.req.headers
        bookId == parseInt(f.req.param)
    IN  IF get(headers, "x-user-id") = <<>> \/ ~Truthy(getRole(headers))
        THEN Respond(f, 401)
        ELSE IF bookId.nan THEN Respond(f, 400)
        ELSE [f EXCEPT !.pc = "findBook", !.bookId = bookId.value]

\* the number of invocations that are on their way to
\* prisma.feedback.create
PendingFeedbacks ==
    Cardinality({h \in Handlers : fb[h].pc \in {"findBook", "findFirst", "create"}})

FeedbackBegin(h, r) ==
    /\ fb[h].pc = "idle"
    /\ Len(feedbacks) + PendingFeedbacks < MaxFeedbacks
    /\ fb' = [fb EXCEPT ![h] = feedbackChecks([IdleFeedback EXCEPT
                                                  !.req = r,
                                                  !.rowsBefore = feedbacks])]
    /\ UNCHANGED <<now, sessions, mw, query, answer, login, lastConnected,
                   bookVars, feedbacks, restVars>>

\* lines 254-275: the book is looked up, then the body validated
FeedbackFindBook(h) ==
    /\ fb[h].pc = "findBook"
    /\ fb' = [fb EXCEPT ![h] =
                 IF ~findBook(books, fb[h].bookId).found THEN Respond(@, 404)
                 ELSE IF ~fb[h].req.valid THEN Respond(@, 400)
                 ELSE [@ EXCEPT !.pc = "findFirst"]]
    /\ UNCHANGED <<now, sessions, mw, query, answer, login, lastConnected,
                   bookVars, feedbacks, restVars>>

\* the row of lines 294-299
feedbackRow(f) ==
    [userId |-> parseInt(get(f.req.headers, "x-user-id")).value,
     bookId |-> f.bookId]

\* prisma.feedback.findFirst({where: {userId, bookId}}) finds a row
findFirst(table, where) ==
    \E i \in 1..Len(table) :
        table[i].userId = where.userId /\ table[i].bookId = where.bookId

\* lines 278-290
FeedbackFindFirst(h) ==
    /\ fb[h].pc = "findFirst"
    /\ fb' = [fb EXCEPT ![h] = IF findFirst(feedbacks, feedbackRow(fb[h]))
                               THEN Respond(@, 400)
                               ELSE [@ EXCEPT !.pc = "create"]]
    /\ UNCHANGED <<now, sessions, mw, query, answer, login, lastConnected,
                   bookVars, feedbacks, restVars>>

\* lines 293-306: the row is appended, its id its place in the table
FeedbackCreate(h) ==
    /\ fb[h].pc = "create"
    /\ feedbacks' = Append(feedbacks, feedbackRow(fb[h]))
    /\ fb' = [fb EXCEPT ![h].pc = "log", ![h].wrote = TRUE]
    /\ UNCHANGED <<now, sessions, mw, query, answer, login, lastConnected,
                   bookVars, restVars>>

\* lines 309-318
FeedbackLog(h) ==
    /\ fb[h].pc = "log"
    /\ fb' = [fb EXCEPT ![h] = Respond(@, 201)]
    /\ UNCHANGED <<now, sessions, mw, query, answer, login, lastConnected,
                   bookVars, feedbacks, restVars>>

\* an awaited call throws before it has written anything: lines 320-326
FeedbackThrow(h) ==
    /\ fb[h].pc \in {"findBook", "findFirst", "create", "log"}
    /\ fb' = [fb EXCEPT ![h] = Respond(@, 500)]
    /\ UNCHANGED <<now, sessions, mw, query, answer, login, lastConnected,
                   bookVars, feedbacks, restVars>>

FeedbackReturn(h) ==
    /\ fb[h].pc = "done"
    /\ fb' = [fb EXCEPT ![h] = IdleFeedback]
    /\ UNCHANGED <<now, sessions, mw, query, answer, login, lastConnected,
                   bookVars, feedbacks, restVars>>

FeedbackStep(h) ==
    \/ FeedbackFindBook(h)
    \/ FeedbackFindFirst(h)
    \/ FeedbackCreate(h)
    \/ FeedbackLog(h)
    \/ FeedbackThrow(h)
    \/ FeedbackReturn(h)

\* one invocation at a time
NextFeedback ==
    \/ \E r \in FeedbackRequests : FeedbackBegin("h1", r)
    \/ FeedbackStep("h1")

SpecFeedback == Init /\ [][NextFeedback]_vars

\* overlapping invocations on the same feedback table
NextFeedbackConc ==
    \/ \E h \in Handlers : \E r \in FeedbackRequests : FeedbackBegin(h, r)
    \/ \E h \in Handlers : FeedbackStep(h)

SpecFeedbackConc == Init /\ [][NextFeedbackConc]_vars

(***************************************************************************)
(* The category handlers.                                                  *)
(***************************************************************************)
\* the state the category handlers leave alone
categoryFrame ==
    <<now, sessions, mw, query, answer, login, lastConnected, bookVars,
      feedbackVars, authorVars, penaltyVars, addressVars>>

\* lines 75-91 and 151-167: the caller is known and is ADMIN or MANAGER
categoryAuth(c) ==
    LET headers == c.req.headers
    IN  IF get(headers, "x-user-id") = <<>> \/ ~Truthy(getRole(headers))
        THEN 401
        ELSE IF getRole(headers) # "ADMIN" /\ getRole(headers) # "MANAGER"
        THEN 403
        ELSE 200

\* lines 75-104: POST up to its first store call; categorySchema wants a
\* name
categoryCreateChecks(c) ==
    IF categoryAuth(c) # 200 THEN Respond(c, categoryAuth(c))
    ELSE IF c.req.name = "" THEN Respond(c, 400)
    ELSE [c EXCEPT !.pc = "findFirst"]

\* lines 151-170: PATCH up to its first store call
categoryUpdateChecks(c) ==
    IF categoryAuth(c) # 200 THEN Respond(c, categoryAuth(c))
    ELSE [c EXCEPT !.pc = "find"]

\* the number of invocations that are on their way to
\* prisma.category.create
PendingCategories ==
    Cardinality({h \in Handlers :
                    ct[h].req.op = "POST" /\ ct[h].pc \in {"findFirst", "create"}})

CategoryBegin(h, r) ==
    /\ ct[h].pc = "idle"
    /\ r.op = "POST" =>
          Len(categories) + PendingCategories
              < Len(InitialCategories) + MaxCategories
    /\ LET c == [IdleCategory EXCEPT !.req = r, !.rowsBefore = categories]
       IN  ct' = [ct EXCEPT ![h] = IF r.op = "POST"
                                   THEN categoryCreateChecks(c)
                                   ELSE categoryUpdateChecks(c)]
    /\ UNCHANGED <<categories, categoryFrame>>

\* prisma.category.findUnique({where: {id}})
findCategory(table, id) ==
    IF id \in 1..Len(table) THEN [found |-> TRUE, row |-> table[id]]
    ELSE NoCategory

\* lines 170-207: the category is read (a findUnique on NaN throws), then
\* the body validated, and a new name sends the handler to look for it
CategoryFind(h) ==
    /\ ct[h].pc = "find"
    /\ LET categoryId == parseInt(ct[h].req.param)
           existingCategory == findCategory(categories, categoryId.value)
           name == ct[h].req.name
       IN  ct' = [ct EXCEPT ![h] =
                     IF categoryId.nan THEN Respond(@, 500)
                     ELSE IF ~existingCategory.found THEN Respond(@, 404)
                     ELSE [@ EXCEPT
                             !.categoryId = categoryId.value,
                             !.existing = existingCategory,
                             !.pc = IF Truthy(name) /\ name # existingCategory.row.name
                                    THEN "findFirst" ELSE "update"]]
    /\ UNCHANGED <<categories, categoryFrame>>

\* prisma.category.findFirst({where: {name, NOT: {id}}}) finds a row; the
\* POST handler excludes no id
findFirstCategory(table, name, notId) ==
    \E i \in 1..Len(table) : i # notId /\ table[i].name = name

\* lines 107-116 and 197-206
CategoryFindFirst(h) ==
    /\ ct[h].pc = "findFirst"
    /\ ct' = [ct EXCEPT ![h] =
                 IF findFirstCategory(categories, ct[h].req.name, ct[h].categoryId)
                 THEN Respond(@, 409)
                 ELSE [@ EXCEPT !.pc = IF ct[h].req.op = "POST" THEN "create"
                                       ELSE "update"]]
    /\ UNCHANGED <<categories, categoryFrame>>

\* lines 119-122
CategoryCreate(h) ==
    /\ ct[h].pc = "create"
    /\ categories' = Append(categories, [name |-> ct[h].req.name])
    /\ ct' = [ct EXCEPT ![h].pc = "log", ![h].wrote = TRUE]
    /\ UNCHANGED categoryFrame

\* lines 210-217: name || existingCategory.name
CategoryUpdate(h) ==
    /\ ct[h].pc = "update"
    /\ categories' = [categories EXCEPT ![ct[h].categoryId].name =
                         IF Truthy(ct[h].req.name) THEN ct[h].req.name
                         ELSE ct[h].existing.row.name]
    /\ ct' = [ct EXCEPT ![h].pc = "log", ![h].wrote = TRUE]
    /\ UNCHANGED categoryFrame

\* lines 124-129 and 220-229: logAction and the response
CategoryLog(h) ==
    /\ ct[h].pc = "log"
    /\ ct' = [ct EXCEPT ![h] =
                 Respond(@, IF ct[h].req.op = "POST" THEN 201 ELSE 200)]
    /\ UNCHANGED <<categories, categoryFrame>>

\* an awaited call throws before it has written anything: lines 131-137
\* and 231-237
CategoryThrow(h) ==
    /\ ct[h].pc \in {"find", "findFirst", "create", "update", "log"}
    /\ ct' = [ct EXCEPT ![h] = Respond(@, 500)]
    /\ UNCHANGED <<categories, categoryFrame>>

CategoryReturn(h) ==
    /\ ct[h].pc = "done"
    /\ ct' = [ct EXCEPT ![h] = IdleCategory]
    /\ UNCHANGED <<categories, categoryFrame>>

CategoryStep(h) ==
    \/ CategoryFind(h)
    \/ CategoryFindFirst(h)
    \/ CategoryCreate(h)
    \/ CategoryUpdate(h)
    \/ CategoryLog(h)
    \/ CategoryThrow(h)
    \/ CategoryReturn(h)

\* one invocation at a time, over all the requests
NextCategories ==
    \/ \E r \in CategoryRequests : CategoryBegin("h1", r)
    \/ CategoryStep("h1")

SpecCategories == Init /\ [][NextCategories]_vars

\* overlapping invocations on the same category table
NextCategoriesConc ==
    \/ \E h \in Handlers : \E r \in ConcCategoryRequests : CategoryBegin(h, r)
    \/ \E h \in Handlers : CategoryStep(h)

SpecCategoriesConc == Init /\ [][NextCategoriesConc]_vars

(***************************************************************************)
(* The author DELETE handler.                                              *)
(***************************************************************************)
\* the state the author handler leaves alone
authorFrame ==
    <<now, sessions, mw, query, answer, login, lastConnected, bookVars,
      feedbackVars, categoryVars, penaltyVars, addressVars>>

\* lines 115-131: up to the first store call
authorChecks(a) ==
    LET headers == a.req.headers
    IN  IF get(headers, "x-user-id") = <<>> \/ ~Truthy(getRole(headers))
        THEN Respond(a, 401)
        ELSE IF getRole(headers) # "ADMIN" THEN Respond(a, 403)
        ELSE [a EXCEPT !.pc = "read"]

AuthorBegin(h, r) ==
    /\ au[h].pc = "idle"
    /\ au' = [au EXCEPT ![h] = authorChecks([IdleAuthor EXCEPT !.req = r])]
    /\ UNCHANGED <<authors, authorFrame>>

\* prisma.book.count({where: {authorId}})
booksCount(table, authorId) ==
    Cardinality({id \in DOMAIN table : table[id].authorId = authorId})

\* lines 134-162: the author is read and its books counted (a findUnique
\* on NaN throws)
AuthorRead(h) ==
    /\ au[h].pc = "read"
    /\ LET authorId == parseInt(au[h].req.param)
       IN  au' = [au EXCEPT ![h] =
                     IF authorId.nan THEN Respond(@, 500)
                     ELSE IF authorId.value \notin authors THEN Respond(@, 404)
                     ELSE IF booksCount(books, authorId.value) > 0
                     THEN Respond(@, 400)
                     ELSE [@ EXCEPT !.pc = "delete", !.authorId = authorId.value]]
    /\ UNCHANGED <<authors, authorFrame>>

\* lines 165-167: prisma.author.delete, which throws when the row is gone
AuthorDelete(h) ==
    /\ au[h].pc = "delete"
    /\ IF au[h].authorId \in authors
       THEN /\ authors' = authors \ {au[h].authorId}
            /\ au' = [au EXCEPT ![h].pc = "log", ![h].wrote = TRUE]
       ELSE /\ au' = [au EXCEPT ![h] = Respond(@, 500)]
            /\ UNCHANGED authors
    /\ UNCHANGED authorFrame

\* lines 169-174
AuthorLog(h) ==
    /\ au[h].pc = "log"
    /\ au' = [au EXCEPT ![h] = Respond(@, 200)]
    /\ UNCHANGED <<authors, authorFrame>>

\* an awaited call throws before it has written anything: lines 176-182
AuthorThrow(h) ==
    /\ au[h].pc \in {"read", "delete", "log"}
    /\ au' = [au EXCEPT ![h] = Respond(@, 500)]
    /\ UNCHANGED <<authors, authorFrame>>

AuthorReturn(h) ==
    /\ au[h].pc = "done"
    /\ au' = [au EXCEPT ![h] = IdleAuthor]
    /\ UNCHANGED <<authors, authorFrame>>

AuthorStep(h) ==
    \/ AuthorRead(h)
    \/ AuthorDelete(h)
    \/ AuthorLog(h)
    \/ AuthorThrow(h)
    \/ AuthorReturn(h)

\* one request at a time, to the author handler or to a book handler
NextAuthors ==
    \/ /\ bk["h1"].pc = "idle"
       /\ \E r \in AuthorRequests : AuthorBegin("h1", r)
    \/ AuthorStep("h1")
    \/ /\ au["h1"].pc = "idle"
       /\ \E r \in AuthorBookRequests : BookBegin("h1", r)
    \/ BookStep("h1")

SpecAuthors == Init /\ [][NextAuthors]_vars

\* a deletion of an author overlapping a request to a book handler
NextAuthorsConc ==
    \/ \E r \in AuthorRequests : AuthorBegin("h1", r)
    \/ AuthorStep("h1")
    \/ \E r \in AuthorBookRequests : BookBegin("h1", r)
    \/ BookStep("h1")

SpecAuthorsConc == Init /\ [][NextAuthorsConc]_vars

(***************************************************************************)
(* The penalty pay handler.                                                *)
(***************************************************************************)
\* the state the penalty handler leaves alone
penaltyFrame ==
    <<now, sessions, mw, query, answer, login, lastConnected, bookVars,
      feedbackVars, categoryVars, authorVars, addressVars>>

\* lines 11-28: up to the first store call
penaltyChecks(p) ==
    LET headers == p.req.headers
    IN  IF get(headers, "x-user-id") = <<>> \/ ~Truthy(getRole(headers))
        THEN Respond(p, 401)
        ELSE IF getRole(headers) \notin {"ADMIN", "MANAGER"} THEN Respond(p, 403)
        ELSE [p EXCEPT !.pc = "find"]

\* the penalty of the request is paid
paidNow(table, param) ==
    /\ ~parseInt(param).nan
    /\ parseInt(param).value \in DOMAIN table
    /\ table[parseInt(param).value].paid

PenaltyBegin(h, r) ==
    /\ pn[h].pc = "idle"
    /\ pn' = [pn EXCEPT ![h] =
                 penaltyChecks([IdlePenalty EXCEPT
                                   !.req = r,
                                   !.paidBefore = paidNow(penalties, r.param)])]
    /\ UNCHANGED <<penalties, penaltyFrame>>

\* lines 31-54: the penalty is read (a findUnique on NaN throws)
PenaltyFind(h) ==
    /\ pn[h].pc = "find"
    /\ LET penaltyId == parseInt(pn[h].req.param)
       IN  pn' = [pn EXCEPT ![h] =
                     IF penaltyId.nan THEN Respond(@, 500)
                     ELSE IF penaltyId.value \notin DOMAIN penalties
                     THEN Respond(@, 404)
                     ELSE IF penalties[penaltyId.value].paid THEN Respond(@, 400)
                     ELSE [@ EXCEPT !.pc = "update", !.penaltyId = penaltyId.value]]
    /\ UNCHANGED <<penalties, penaltyFrame>>

\* lines 57-85: prisma.penalty.update({data: {paid: true}}) and the 200
PenaltyUpdate(h) ==
    /\ pn[h].pc = "update"
    /\ penalties' = [penalties EXCEPT ![pn[h].penaltyId] =
                        [paid |-> TRUE, acks |-> @.acks + 1]]
    /\ pn' = [pn EXCEPT ![h] = [Respond(@, 200) EXCEPT !.wrote = TRUE]]
    /\ UNCHANGED penaltyFrame

\* an awaited call throws before it has written anything: lines 87-93
PenaltyThrow(h) ==
    /\ pn[h].pc \in {"find", "update"}
    /\ pn' = [pn EXCEPT ![h] = Respond(@, 500)]
    /\ UNCHANGED <<penalties, penaltyFrame>>

PenaltyReturn(h) ==
    /\ pn[h].pc = "done"
    /\ pn' = [pn EXCEPT ![h] = IdlePenalty]
    /\ UNCHANGED <<penalties, penaltyFrame>>

PenaltyStep(h) ==
    \/ PenaltyFind(h)
    \/ PenaltyUpdate(h)
    \/ PenaltyThrow(h)
    \/ PenaltyReturn(h)

\* one invocation at a time
NextPenalties ==
    \/ \E r \in PenaltyRequests : PenaltyBegin("h1", r)
    \/ PenaltyStep("h1")

SpecPenalties == Init /\ [][NextPenalties]_vars

\* overlapping invocations on the same penalty table
NextPenaltiesConc ==
    \/ \E h \in Handlers : \E r \in PenaltyRequests : PenaltyBegin(h, r)
    \/ \E h \in Handlers : PenaltyStep(h)

SpecPenaltiesConc == Init /\ [][NextPenaltiesConc]_vars

(***************************************************************************)
(* The address handlers.                                                   *)
(***************************************************************************)
\* the state the address handlers leave alone
addressFrame ==
    <<now, sessions, mw, query, answer, login, lastConnected, bookVars,
      feedbackVars, categoryVars, authorVars, penaltyVars>>

\* a === b for two results of parseInt
StrictEqual(a, b) == ~a.nan /\ ~b.nan /\ a.value = b.value

\* lines 98-130: POST up to its first store call
addressCreateChecks(a) ==
    LET headers == a.req.headers
        currentUserId == get(headers, "x-user-id")
        isSelfRequest == a.req.param = Me \/ a.req.param = currentUserId
        body == a.req.body
    IN  IF currentUserId = <<>> \/ ~Truthy(getRole(headers))
        THEN Respond(a, 401)
        ELSE IF ~isSelfRequest THEN Respond(a, 403)
        ELSE IF ~Truthy(body.address) \/ ~Truthy(body.city) \/ ~Truthy(body.country)
        THEN Respond(a, 400)
        ELSE [a EXCEPT !.pc = "create", !.targetUserId = parseInt(currentUserId)]

\* lines 180-214: PATCH up to its first store call
addressUpdateChecks(a) ==
    LET headers == a.req.headers
        currentUserId == get(headers, "x-user-id")
        targetUserId == IF a.req.param = Me THEN parseInt(currentUserId)
                        ELSE parseInt(a.req.param)
        isAdmin == getRole(headers) = "ADMIN"
        isSelfUpdate == StrictEqual(targetUserId, parseInt(currentUserId))
    IN  IF currentUserId = <<>> \/ ~Truthy(getRole(headers))
        THEN Respond(a, 401)
        ELSE IF ~isSelfUpdate /\ ~isAdmin THEN Respond(a, 403)
        ELSE IF a.req.body.addressId = 0 THEN Respond(a, 400)
        ELSE [a EXCEPT !.pc = "find", !.targetUserId = targetUserId]

\* the number of invocations that are on their way to
\* prisma.deliveryAddress.create
PendingAddresses ==
    Cardinality({h \in Handlers : ad[h].pc = "create"})

AddressBegin(h, r) ==
    /\ ad[h].pc = "idle"
    /\ r.op = "POST" =>
          Len(addresses) + PendingAddresses < Len(InitialAddresses) + MaxAddresses
    /\ LET a == [IdleAddress EXCEPT !.req = r, !.rowsBefore = addresses]
       IN  ad' = [ad EXCEPT ![h] = IF r.op = "POST" THEN addressCreateChecks(a)
                                   ELSE addressUpdateChecks(a)]
    /\ UNCHANGED <<addresses, addressFrame>>

\* as findFirstAddress, the owner not asked for
findFirstAddress_AnyOwner(table, id, userId) == id \in 1..Len(table)

\* prisma.deliveryAddress.findFirst({where: {id, userId}}) finds a row
findFirstAddress(table, id, userId) ==
    id \in 1..Len(table) /\ table[id].userId = userId

\* lines 217-229; a query on the user NaN either throws or finds nothing
AddressFind(h) ==
    /\ ad[h].pc = "find"
    /\ IF ad[h].targetUserId.nan
       THEN \E status \in {404, 500} : ad' = [ad EXCEPT ![h] = Respond(@, status)]
       ELSE ad' = [ad EXCEPT ![h] =
                      IF findFirstAddress(addresses, ad[h].req.body.addressId,
                                          ad[h].targetUserId.value)
                      THEN [@ EXCEPT !.pc = "update"]
                      ELSE Respond(@, 404)]
    /\ UNCHANGED <<addresses, addressFrame>>

\* lines 133-148: phone || null
AddressCreate(h) ==
    /\ ad[h].pc = "create"
    /\ LET body == ad[h].req.body
       IN  addresses' = Append(addresses,
               AddressRow(ad[h].targetUserId.value, body.address, body.city,
                          body.country,
                          IF body.phone = NoPhone \/ ~Truthy(body.phone)
                          THEN NullPhone ELSE body.phone))
    /\ ad' = [ad EXCEPT ![h].pc = "log", ![h].wrote = TRUE]
    /\ UNCHANGED addressFrame

\* lines 232-249: the fields the body carries replace those of the row
AddressUpdate(h) ==
    /\ ad[h].pc = "update"
    /\ LET body == ad[h].req.body
       IN  addresses' = [addresses EXCEPT ![body.addressId] =
               [@ EXCEPT
                  !.address = IF Truthy(body.address) THEN body.address ELSE @,
                  !.city = IF Truthy(body.city) THEN body.city ELSE @,
                  !.country = IF Truthy(body.country) THEN body.country ELSE @,
                  !.phone = IF body.phone # NoPhone THEN body.phone ELSE @]]
    /\ ad' = [ad EXCEPT ![h].pc = "log", ![h].wrote = TRUE]
    /\ UNCHANGED addressFrame

\* lines 151-163 and 252-264: logAction and the response
AddressLog(h) ==
    /\ ad[h].pc = "log"
    /\ ad' = [ad EXCEPT ![h] =
                 Respond(@, IF ad[h].req.op = "POST" THEN 201 ELSE 200)]
    /\ UNCHANGED <<addresses, addressFrame>>

\* an awaited call throws before it has written anything: lines 165-171
\* and 266-272
AddressThrow(h) ==
    /\ ad[h].pc \in {"find", "create", "update", "log"}
    /\ ad' = [ad EXCEPT ![h] = Respond(@, 500)]
    /\ UNCHANGED <<addresses, addressFrame>>

AddressReturn(h) ==
    /\ ad[h].pc = "done"
    /\ ad' = [ad EXCEPT ![h] = IdleAddress]
    /\ UNCHANGED <<addresses, addressFrame>>

AddressStep(h) ==
    \/ AddressFind(h)
    \/ AddressCreate(h)
    \/ AddressUpdate(h)
    \/ AddressLog(h)
    \/ AddressThrow(h)
    \/ AddressReturn(h)

\* one invocation at a time, over all the requests
NextAddresses ==
    \/ \E r \in AddressRequests : AddressBegin("h1", r)
    \/ AddressStep("h1")

SpecAddresses == Init /\ [][NextAddresses]_vars

(***************************************************************************)
(* Vocabulary of the properties, stated without the operators above.       *)
(***************************************************************************)
\* path begins with prefix, character by character
Under(path, prefix) ==
    \A i \in 1..Len(prefix) : i <= Len(path) /\ path[i] = prefix[i]

\* the text after the last "/" of a path
TrailingSegment(path) ==
    LET slashes == {i \in 1..Len(path) : path[i] = "/"}
        last == CHOOSE i \in slashes : \A j \in slashes : j <= i
    IN  [k \in 1..(Len(path) - last) |-> path[last + k]]

\* the decimal text of the ids of the users of the model
IdText(id) ==
    CASE id = 1 -> <<"1">> [] id = 2 -> <<"2">> [] id = 7 -> <<"7">>
      [] id = 17 -> <<"1", "7">>

\* the public allow-list: login, registration and the OAuth endpoints
OnAllowList(path) ==
    \E route \in { RouteLogin, RouteRegister, RouteSignin, RouteCallback,
                   RouteProviders, RouteSession, RouteCsrf, RouteDebug } :
        Under(path, route)

\* the default permission table, row by row: role, exact path or prefix,
\* methods
TableRows ==
    { <<"ADMIN",    "prefix", ApiPrefix,          {"GET", "POST", "PATCH", "DELETE"}>>,
      <<"MANAGER",  "prefix", LibrariesPrefix,    {"GET", "PATCH"}>>,
      <<"MANAGER",  "exact",  PathUsers,          {"GET"}>>,
      <<"MANAGER",  "prefix", BooksPrefix,        {"GET", "POST", "PATCH", "DELETE"}>>,
      <<"MANAGER",  "prefix", LoansPrefix,        {"GET", "POST", "PATCH"}>>,
      <<"MANAGER",  "prefix", ReservationsPrefix, {"GET", "POST", "PATCH"}>>,
      <<"MANAGER",  "prefix", PenaltiesPrefix,    {"GET", "POST", "PATCH"}>>,
      <<"CLIENT",   "exact",  PathUsersMe,        {"GET", "PATCH"}>>,
      <<"CLIENT",   "exact",  PathBooks,          {"GET"}>>,
      <<"CLIENT",   "exact",  PathReservations,   {"GET", "POST", "DELETE"}>>,
      <<"CLIENT",   "exact",  PathFeedbacks,      {"GET", "POST"}>>,
      <<"DELIVERY", "exact",  PathSales,          {"GET", "PATCH"}>>,
      <<"DELIVERY", "exact",  PathUsersMe,        {"GET"}>> }

Covered(role, path, method) ==
    \E row \in TableRows :
        /\ row[1] = role
        /\ IF row[2] = "exact" THEN path = row[3] ELSE Under(path, row[3])
        /\ method \in row[4]

\* the invocation has returned / has returned this outcome
Done(m) == m.pc = "done"
Ended(m, outcome) == m.pc = "done" /\ m.out = <<outcome>>

\* the user owning the session of the invocation's token, when there is one
HasOwner(m) == m.sessionToken \in DOMAIN sessions
Owner(m) == UserById(sessions[m.sessionToken].userId)

(***************************************************************************)
(* C1.  The middleware is the sole gate.  Every invocation that has        *)
(* returned has returned exactly one outcome among forward, 401, 403 and   *)
(* 500, and none before.  A request on a path outside the public           *)
(* allow-list is forwarded only if it supplied a token, the token is that  *)
(* of a stored session whose expiry was not in the past when checked, the  *)
(* self-access rule held if the path starts with /api/users/, and the      *)
(* permission table covers (role, path, method); the forwarded request     *)
(* carries x-user-id and x-user-role of the session's owning user.         *)
(***************************************************************************)
C1_Gate(m) ==
    /\ Done(m) => Len(m.out) = 1 /\ m.out[1] \in {"forward", "401", "403", "500"}
    /\ ~Done(m) => m.out = <<>>
    /\ (Ended(m, "forward") /\ ~OnAllowList(m.req.path)) =>
          /\ "authorization" \in DOMAIN m.req.headers
          /\ m.sessionToken # <<>>
          /\ HasOwner(m)
          /\ m.session.found
          /\ m.session.id = sessions[m.sessionToken].id
          /\ m.session.expires >= m.checkedAt
          /\ Under(m.req.path, UsersPrefix) =>
                \/ TrailingSegment(m.req.path) = Me
                \/ TrailingSegment(m.req.path) = IdText(Owner(m).id)
                \/ Owner(m).role = "ADMIN"
          /\ Covered(Owner(m).role, m.req.path, m.req.method)
          /\ "x-user-id" \in DOMAIN m.fwd /\ m.fwd["x-user-id"] = IdText(Owner(m).id)
          /\ "x-user-role" \in DOMAIN m.fwd /\ m.fwd["x-user-role"] = Owner(m).role

\* C1: every invocation satisfies the gate property
C1_SoleGate == \A p \in Procs : C1_Gate(mw[p])

\* a client's request for /api/users/me has been forwarded
C1_Witness ==
    /\ Ended(mw[1], "forward")
    /\ mw[1].req.path = PathUsersMe
    /\ HasOwner(mw[1]) /\ Owner(mw[1]).role = "CLIENT"

(***************************************************************************)
(* C2.  Deny by default.  An invocation with a valid session on a path     *)
(* outside the allow-list whose (role, path, method) no row of the         *)
(* permission table covers is answered 403; a MANAGER's DELETE /api/users  *)
(* is answered 403 by the permission check itself (the table grants only   *)
(* GET there); and hasPermission is false for a role the table has no      *)
(* rule list for.                                                          *)
(***************************************************************************)
\* the invocation got past the session checks and the store did not fail
Authenticated(m) ==
    /\ Done(m)
    /\ ~OnAllowList(m.req.path)
    /\ HasOwner(m)
    /\ m.session.found
    /\ m.session.expires >= m.checkedAt
    /\ m.out # <<"500">>

C2_Denied(m) ==
    /\ (Authenticated(m) /\ ~Covered(Owner(m).role, m.req.path, m.req.method))
            => Ended(m, "403")
    /\ (Authenticated(m) /\ Owner(m).role = "MANAGER"
            /\ m.req.path = PathUsers /\ m.req.method = "DELETE")
            => Ended(m, "403") /\ m.permCalls = 1
    /\ Done(m) =>
          \A r \in Roles \cup {OtherRole} :
              ~Covered(r, m.req.path, m.req.method)
                  => ~hasPermission(r, m.req.path, m.req.method)

\* C2: what the table does not cover is denied, for every invocation
C2_DenyByDefault == \A p \in Procs : C2_Denied(mw[p])

\* a manager's DELETE /api/users has been answered
C2_Witness ==
    /\ Authenticated(mw[1])
    /\ Owner(mw[1]).role = "MANAGER"
    /\ mw[1].req.path = PathUsers
    /\ mw[1].req.method = "DELETE"

(***************************************************************************)
(* C3.  hasPermission(ADMIN, p, m) is true for every path p that starts    *)
(* with /api/ and every method m among GET, POST, PATCH and DELETE.        *)
(***************************************************************************)
\* C3: ADMIN is allowed every /api/ path with GET, POST, PATCH and DELETE
C3_AdminAllowed ==
    (/\ answer # "none"
     /\ query.role = "ADMIN"
     /\ Under(query.path, ApiPrefix)
     /\ query.method \in {"GET", "POST", "PATCH", "DELETE"})
        => answer = "true"

\* hasPermission has answered for ADMIN, DELETE /api/users/7
C3_Witness ==
    /\ answer # "none"
    /\ query = [role |-> "ADMIN", path |-> PathUsers7, method |-> "DELETE"]

(***************************************************************************)
(* C4.  A request whose token is that of no session, or of a session       *)
(* whose expiry is in the past, is answered 401 whatever the role, path    *)
(* and method (unless the lookup itself fails), without a permission       *)
(* check, and the request writes nothing: the session table is the same    *)
(* after each of its steps, so an expired session is never renewed.        *)
(***************************************************************************)
\* the invocation has looked its token up and checked the result
Looked(m) == m.pc \in {"update", "done"} /\ m.reads = 1 /\ m.out # <<"500">>

NoValidSession(m) ==
    \/ ~HasOwner(m)
    \/ sessions[m.sessionToken].expires < m.checkedAt

C4_Rejected(m) ==
    (Looked(m) /\ NoValidSession(m)) =>
        /\ Ended(m, "401")
        /\ m.writes = 0
        /\ m.permCalls = 0

C4_StepWritesNothing ==
    \A p \in Procs :
        (mw'[p] # mw[p] /\ Ended(mw'[p], "401")) => sessions' = sessions

\* C4: no valid session means 401, and the answering step writes nothing
C4_InvalidSession401 ==
    /\ [](\A p \in Procs : C4_Rejected(mw[p]))
    /\ [][C4_StepWritesNothing]_vars

\* the administrator's session has expired and a request with its token
\* has been answered
C4_Witness ==
    /\ Done(mw[1])
    /\ mw[1].sessionToken = TokenA
    /\ mw[1].reads = 1 /\ mw[1].out # <<"500">>
    /\ sessions[TokenA].expires < mw[1].checkedAt

(***************************************************************************)
(* C5.  A request on a path outside the allow-list that carries no         *)
(* Authorization header is answered 401 at once: the session table is      *)
(* never read, hasPermission is never called, and nothing changes.         *)
(***************************************************************************)
NoAuthorization(m) ==
    /\ m.pc # "idle"
    /\ ~OnAllowList(m.req.path)
    /\ "authorization" \notin DOMAIN m.req.headers

C5_Rejected(m) ==
    NoAuthorization(m) =>
        /\ Ended(m, "401")
        /\ m.reads = 0 /\ m.writes = 0 /\ m.permCalls = 0

C5_StepChangesNothing ==
    \A p \in Procs :
        (mw'[p] # mw[p] /\ NoAuthorization(mw'[p])) =>
            /\ sessions' = sessions
            /\ now' = now
            /\ \A q \in Procs \ {p} : mw'[q] = mw[q]

\* C5: no Authorization header means 401 with no read, write or table lookup
C5_NoHeader401 ==
    /\ [](\A p \in Procs : C5_Rejected(mw[p]))
    /\ [][C5_StepChangesNothing]_vars

\* GET /api/books without an Authorization header has been answered
C5_Witness ==
    /\ Done(mw[1])
    /\ mw[1].req.path = PathBooks
    /\ mw[1].req.method = "GET"
    /\ "authorization" \notin DOMAIN mw[1].req.headers

(***************************************************************************)
(* C6.  The self-access rule.  For an authenticated caller u and a path    *)
(* that starts with /api/users/: if u is not an ADMIN and the trailing     *)
(* segment of the path is neither "me" nor the decimal text of u's id,     *)
(* the answer is 403 and hasPermission is not called; otherwise (the       *)
(* segment is u's id, or "me", or u is an ADMIN) hasPermission is called   *)
(* and the table decides between forward and 403.                          *)
(***************************************************************************)
PassesSelfAccess(m) ==
    \/ TrailingSegment(m.req.path) = Me
    \/ TrailingSegment(m.req.path) = IdText(Owner(m).id)
    \/ Owner(m).role = "ADMIN"

C6_Rule(m) ==
    (Authenticated(m) /\ Under(m.req.path, UsersPrefix)) =>
        /\ ~PassesSelfAccess(m) => Ended(m, "403") /\ m.permCalls = 0
        /\ PassesSelfAccess(m) =>
              /\ m.permCalls = 1
              /\ IF Covered(Owner(m).role, m.req.path, m.req.method)
                 THEN Ended(m, "forward") ELSE Ended(m, "403")

\* C6: the self-access rule holds of every invocation
C6_SelfAccess == \A p \in Procs : C6_Rule(mw[p])

\* client 7 has requested /api/users/7
C6_Witness ==
    /\ Authenticated(mw[1])
    /\ Owner(mw[1]).id = 7
    /\ mw[1].req.path = PathUsers7
    /\ mw[1].permCalls = 1

(***************************************************************************)
(* C7.  Whenever a request for /api/users/me is forwarded, the forwarded   *)
(* request carries x-requested-user-id, equal to the forwarded x-user-id   *)
(* and to the id of the user owning the session, whatever the client sent  *)
(* under that name.                                                        *)
(***************************************************************************)
C7_Me(m) ==
    (Ended(m, "forward") /\ m.req.path = PathUsersMe) =>
        /\ HasOwner(m)
        /\ "x-requested-user-id" \in DOMAIN m.fwd
        /\ m.fwd["x-requested-user-id"] = m.fwd["x-user-id"]
        /\ m.fwd["x-requested-user-id"] = IdText(Owner(m).id)

\* C7: a forwarded /api/users/me carries the caller's id as requested user
C7_RequestedUserIsCaller == \A p \in Procs : C7_Me(mw[p])

\* client 7's request for /api/users/me, sent with an x-requested-user-id
\* of its own, has been forwarded
C7_Witness ==
    /\ Ended(mw[1], "forward")
    /\ mw[1].req.path = PathUsersMe
    /\ "x-requested-user-id" \in DOMAIN mw[1].req.headers
    /\ mw[1].req.headers["x-requested-user-id"] # <<"7">>
    /\ mw[1].fwd["x-user-id"] = <<"7">>

(***************************************************************************)
(* C8.  Sliding renewal.  When an authenticated request finds its session  *)
(* unexpired with less than one day left, the middleware writes            *)
(* expires = (its clock reading) + 30 days to the session table before it  *)
(* goes on: as long as the write is pending nothing has been returned, the *)
(* step that takes the invocation past the write (to a forward or a 403)   *)
(* leaves that value in the table, and no such invocation is forwarded or  *)
(* answered 403 without having written.                                    *)
(***************************************************************************)
NeedsRenewal(m) ==
    /\ m.pc \in {"update", "done"}
    /\ m.session.found
    /\ m.session.expires >= m.checkedAt
    /\ m.session.expires - m.checkedAt < 24

C8_Pending(m) ==
    NeedsRenewal(m) =>
        /\ m.pc = "update" => m.out = <<>> /\ m.writes = 0
        /\ (Done(m) /\ m.out # <<"500">>) => m.writes = 1

C8_WriteStep ==
    \A p \in Procs :
        (/\ mw'[p] # mw[p]
         /\ NeedsRenewal(mw'[p])
         /\ Done(mw'[p])
         /\ mw'[p].out # <<"500">>) =>
            /\ mw[p].pc = "update"
            /\ sessions'[mw[p].sessionToken].expires = mw[p].checkedAt + 30 * 24
            /\ \A tok \in DOMAIN sessions \ {mw[p].sessionToken} :
                  sessions'[tok] = sessions[tok]

\* C8: the renewal is written, with clock + 30 days, before the request goes on
C8_SlidingRenewal ==
    /\ [](\A p \in Procs : C8_Pending(mw[p]))
    /\ [][C8_WriteStep]_vars

\* a request has been forwarded whose session had 12 hours left
C8_Witness ==
    /\ Ended(mw[1], "forward")
    /\ mw[1].session.found
    /\ mw[1].session.expires - mw[1].checkedAt = 12
    /\ sessions[mw[1].sessionToken].expires = mw[1].checkedAt + 720

(***************************************************************************)
(* C9.  A CLIENT's GET /api/books with a valid session that has at least   *)
(* one day left is forwarded with x-user-role = CLIENT and writes nothing: *)
(* no step of the invocation changes the session table.                    *)
(***************************************************************************)
ClientReadsBooks(m) ==
    /\ m.pc \in {"update", "done"}
    /\ m.req.path = PathBooks
    /\ m.req.method = "GET"
    /\ m.session.found
    /\ m.session.user.role = "CLIENT"
    /\ m.session.expires - m.checkedAt >= 24

C9_Forwarded(m) ==
    ClientReadsBooks(m) =>
        /\ Ended(m, "forward")
        /\ m.fwd["x-user-role"] = "CLIENT"
        /\ m.writes = 0

C9_StepWritesNothing ==
    \A p \in Procs :
        (mw'[p] # mw[p] /\ ClientReadsBooks(mw'[p])) => sessions' = sessions

\* C9: the client's GET /api/books is forwarded and no step of it writes
C9_NoRenewal ==
    /\ [](\A p \in Procs : C9_Forwarded(mw[p]))
    /\ [][C9_StepWritesNothing]_vars

\* client 7's GET /api/books has been forwarded with 36 hours left
C9_Witness ==
    /\ Ended(mw[1], "forward")
    /\ mw[1].req.path = PathBooks
    /\ mw[1].req.method = "GET"
    /\ mw[1].session.user.id = 7
    /\ mw[1].session.expires - mw[1].checkedAt = 36
    /\ sessions = InitialSessions

(***************************************************************************)
(* C10.  Under any interleaving of overlapping invocations that use the    *)
(* same session, no write replaces a session's expiry by an earlier one:   *)
(* expires never decreases.                                                *)
(***************************************************************************)
\* C10: no step lowers the expiry of a session
C10_ExpiresNeverDecreases ==
    [][\A tok \in DOMAIN sessions :
          sessions'[tok].expires >= sessions[tok].expires]_vars

(***************************************************************************)
(* C11.  If the session lookup or the session update throws, the answer    *)
(* is 500 and the request is not forwarded; and the step that ends an      *)
(* invocation in 500 leaves every session row either as it was or, for     *)
(* the row of the request's session, with the complete renewed expiry      *)
(* (clock reading + 30 days): no other value is ever left behind.          *)
(***************************************************************************)
C11_Threw(m) ==
    /\ m.threw # "none" =>
          /\ Ended(m, "500")
          /\ m.fwd = NoHeaders
          /\ m.permCalls = 0
    /\ Ended(m, "500") => m.threw \in {"findUnique", "update"}

C11_StepLeavesWholeValue ==
    \A p \in Procs :
        (mw'[p] # mw[p] /\ Ended(mw'[p], "500")) =>
            \A tok \in DOMAIN sessions :
                \/ sessions'[tok] = sessions[tok]
                \/ /\ tok = mw[p].sessionToken
                   /\ mw[p].session.found
                   /\ sessions'[tok] =
                        [sessions[tok] EXCEPT !.expires = mw[p].checkedAt + 30 * 24]

\* C11: a throwing lookup or update gives 500, with no partial write
C11_StoreFailure500 ==
    /\ [](\A p \in Procs : C11_Threw(mw[p]))
    /\ [][C11_StepLeavesWholeValue]_vars

\* the update of a session with 12 hours left threw before it was applied
C11_Witness ==
    /\ Ended(mw[1], "500")
    /\ mw[1].threw = "update"
    /\ mw[1].session.expires - mw[1].checkedAt = 12
    /\ sessions[mw[1].sessionToken].expires = mw[1].session.expires

(***************************************************************************)
(* C12.  A failed renewal write is never downgraded to "authenticated      *)
(* without renewal": when the session needs renewal and the update throws, *)
(* the outcome is 500, never a forward, a 401 or a 403; so an invocation   *)
(* whose session needed renewal never ends in a forward or a 403 without   *)
(* its update having completed.                                            *)
(***************************************************************************)
C12_Failed(m) ==
    /\ (NeedsRenewal(m) /\ m.threw = "update") =>
          /\ Ended(m, "500")
          /\ m.fwd = NoHeaders
    /\ (NeedsRenewal(m) /\ Done(m) /\ m.writes = 0) => Ended(m, "500")

\* C12: a failed renewal write ends in 500
C12_NoDowngrade == \A p \in Procs : C12_Failed(mw[p])

\* the client's renewal write has failed on a request the table allows
C12_Witness ==
    /\ Done(mw[1])
    /\ mw[1].threw = "update"
    /\ mw[1].session.user.role = "CLIENT"
    /\ mw[1].req.path = PathBooks /\ mw[1].req.method = "GET"

(***************************************************************************)
(* C13.  The identity headers a handler sees depend only on the session's  *)
(* user and the path, not on what the client sent: two forwarded requests  *)
(* on the same path outside the allow-list with the same Authorization     *)
(* header carry the same x-user-id, x-user-role, x-user-library-id and     *)
(* x-requested-user-id; x-user-library-id is present only when the         *)
(* session's user has a libraryId and x-requested-user-id only for a       *)
(* /users/me access.                                                       *)
(***************************************************************************)
IdentityHeaderNames ==
    {"x-user-id", "x-user-role", "x-user-library-id", "x-requested-user-id"}

SameIdentity(f, g) ==
    \A h \in IdentityHeaderNames :
        /\ h \in DOMAIN f <=> h \in DOMAIN g
        /\ h \in DOMAIN f => f[h] = g[h]

Gated(m) == Ended(m, "forward") /\ ~OnAllowList(m.req.path) /\ HasOwner(m)

C13_Presence(m) ==
    Gated(m) =>
        /\ "x-user-library-id" \in DOMAIN m.fwd => Owner(m).libraryId # 0
        /\ "x-requested-user-id" \in DOMAIN m.fwd =>
              Under(m.req.path, UsersPrefix) /\ TrailingSegment(m.req.path) = Me

\* C13: forwarded identity headers are a function of session user and path
C13_IdentityFromSessionOnly ==
    /\ \A p \in Procs : C13_Presence(mw[p])
    /\ \A p, q \in Procs :
          (/\ Gated(mw[p]) /\ Gated(mw[q])
           /\ mw[p].req.path = mw[q].req.path
           /\ mw[p].req.headers.authorization = mw[q].req.headers.authorization)
              => SameIdentity(mw[p].fwd, mw[q].fwd)

(***************************************************************************)
(* C14.  A request whose path matches the public allow-list (begins with   *)
(* one of its routes) is forwarded unmodified whatever its token: the      *)
(* session table is neither read nor written, hasPermission is not called, *)
(* the forwarded headers are the request's own, and no 401, 403 or 500 is  *)
(* produced.                                                               *)
(***************************************************************************)
Public(m) == m.pc # "idle" /\ OnAllowList(m.req.path)

C14_Unmodified(m) ==
    Public(m) =>
        /\ Ended(m, "forward")
        /\ m.fwd = m.req.headers
        /\ m.reads = 0 /\ m.writes = 0 /\ m.permCalls = 0

C14_StepChangesNothing ==
    \A p \in Procs :
        (mw'[p] # mw[p] /\ Public(mw'[p])) => sessions' = sessions

\* C14: allow-listed paths are forwarded with no authentication at all
C14_PublicRoutes ==
    /\ [](\A p \in Procs : C14_Unmodified(mw[p]))
    /\ [][C14_StepChangesNothing]_vars

\* /api/auth/loginx, sent with the token of no session, has been forwarded
C14_Witness ==
    /\ Ended(mw[1], "forward")
    /\ mw[1].req.path = PathLoginX
    /\ "authorization" \in DOMAIN mw[1].req.headers
    /\ mw[1].req.headers.authorization = Bearer \o <<Space>> \o TokenZ

(***************************************************************************)
(* C15.  Every row of the default permission table is granted: a request   *)
(* with a valid unexpired session of the row's role, a path matching the   *)
(* row's rule and a method of the row is forwarded (unless the session     *)
(* table fails), and hasPermission is true of it.                          *)
(***************************************************************************)
C15_Row(m) ==
    /\ (Authenticated(m) /\ Covered(Owner(m).role, m.req.path, m.req.method))
          => Ended(m, "forward") /\ m.permCalls = 1
    /\ Done(m) =>
          \A r \in Roles :
              Covered(r, m.req.path, m.req.method)
                  => hasPermission(r, m.req.path, m.req.method)

\* C15: what the table covers is forwarded
C15_RowsGranted == \A p \in Procs : C15_Row(mw[p])

\* the delivery user's PATCH /api/sales has been forwarded
C15_Witness ==
    /\ Ended(mw[1], "forward")
    /\ HasOwner(mw[1]) /\ Owner(mw[1]).role = "DELIVERY"
    /\ mw[1].req.path = PathSales
    /\ mw[1].req.method = "PATCH"

(***************************************************************************)
(* C16.  The token is accepted only from an Authorization header of the    *)
(* form "Bearer <token>": a request outside the allow-list whose header    *)
(* has another scheme, or no second part, is answered 401 even when the    *)
(* text after the first space is the token of a valid session (a failure  *)
(* of the session table, answered 500, set aside).                         *)
(***************************************************************************)
BearerForm(value) ==
    /\ Len(value) > Len(Bearer) + 1
    /\ Under(value, Bearer \o <<Space>>)

\* C16: an Authorization header that is not "Bearer <token>" means 401
C16_BearerOnly ==
    \A p \in Procs :
        (/\ Done(mw[p])
         /\ mw[p].threw = "none"
         /\ ~OnAllowList(mw[p].req.path)
         /\ "authorization" \in DOMAIN mw[p].req.headers
         /\ ~BearerForm(mw[p].req.headers.authorization))
            => Ended(mw[p], "401")

(***************************************************************************)
(* C17.  Login creates a session only on success.  A login that ends in    *)
(* 404 (unknown email), 403 (OAuth/standard mismatch), 400 (missing        *)
(* password) or 401 (wrong password) leaves the session table and          *)
(* lastConnected as they were; each of these cases ends in that status or  *)
(* in 500, never in 200; a login that ends in 200 has added exactly one    *)
(* session row, for that user, with expiry = (its clock reading) + 30      *)
(* days, and returns that row's token.                                     *)
(***************************************************************************)
KnownEmail(b) == b.email \in {"admin@lib", "client@lib"}
GoogleAccount(b) == b.email = "client@lib"
AccountId(b) == IF b.email = "admin@lib" THEN 1 ELSE 7

\* the status the claim gives each kind of failing login, 0 for the others
ExpectedFailure(b) ==
    IF ~KnownEmail(b) THEN 404
    ELSE IF b.isOAuth # GoogleAccount(b) THEN 403
    ELSE IF b.isOAuth THEN 0
    ELSE IF b.password = "" THEN 400
    ELSE IF b.password # "secret" THEN 401
    ELSE 0

C17_Failure ==
    /\ (login.pc = "done" /\ login.status \in {404, 403, 400, 401}) =>
          /\ sessions = login.rowsBefore
          /\ lastConnected = login.touchedBefore
          /\ login.returned = <<>>
    /\ (login.pc = "done" /\ ExpectedFailure(login.body) # 0) =>
          login.status \in {ExpectedFailure(login.body), 500}
    /\ (login.pc = "done" /\ login.status \in {404, 403, 400, 401}) =>
          login.status = ExpectedFailure(login.body)

C17_Success ==
    (login.pc = "done" /\ login.status = 200) =>
        /\ login.returned \in DOMAIN sessions \ DOMAIN login.rowsBefore
        /\ DOMAIN sessions = DOMAIN login.rowsBefore \cup {login.returned}
        /\ \A tok \in DOMAIN login.rowsBefore : sessions[tok] = login.rowsBefore[tok]
        /\ sessions[login.returned].userId = AccountId(login.body)
        /\ sessions[login.returned].expires = login.issuedAt + 30 * 24
        /\ \A tok \in DOMAIN login.rowsBefore :
              sessions[tok].id # sessions[login.returned].id

\* C17: a failing login writes nothing, a successful one adds one session
C17_LoginCreatesSessionOnSuccess == C17_Failure /\ C17_Success

\* the administrator has logged in, and then failed to with a wrong password
C17_Witness ==
    /\ login.pc = "done"
    /\ login.status = 401
    /\ login.body.email = "admin@lib"
    /\ Cardinality(DOMAIN sessions) = Cardinality(DOMAIN InitialSessions) + 1
    /\ lastConnected[1] >= 0

(***************************************************************************)
(* C18.  A request of the book handlers that states the role MANAGER and   *)
(* the library L creates books in L only, updates and deletes only books   *)
(* that are in L at the moment of the write, and leaves the library of a   *)
(* book as it is.  An attempt to do otherwise ends in 403 with nothing     *)
(* written.  The check of lines 145-164 (PATCH) and 270 (DELETE) is made   *)
(* on the row read at line 135 (264), the write of line 198 (278) names    *)
(* the book by id alone: a request that moves the book between the two     *)
(* makes the manager write to a book of another library.                   *)
(***************************************************************************)
\* the text of a library id in a header
LibraryText(l) == CASE l = 5 -> <<"5">> [] l = 6 -> <<"6">>

\* the request states the role MANAGER and the library l
ManagerOf(r, l) ==
    /\ "x-user-role" \in DOMAIN r.headers
    /\ r.headers["x-user-role"] = "MANAGER"
    /\ "x-user-library-id" \in DOMAIN r.headers
    /\ r.headers["x-user-library-id"] = LibraryText(l)

\* what the step does to the book table stays within library l
C18_Within(l) ==
    \A id \in (DOMAIN books) \cup (DOMAIN books') :
        IF id \notin DOMAIN books THEN books'[id].libraryId = l
        ELSE IF id \notin DOMAIN books' THEN books[id].libraryId = l
        ELSE books'[id] # books[id] =>
                books[id].libraryId = l /\ books'[id].libraryId = l

C18_Step ==
    \A h \in Handlers : \A l \in Libraries :
        (ManagerOf(bk[h].req, l) /\ bk[h].pc # "idle" /\ bk'[h] # bk[h])
            => C18_Within(l)

\* the request is an attempt outside library l, going by its body and by
\* the row it has read
C18_Attempt(b, l) ==
    \/ b.req.op = "POST" /\ b.req.body.valid /\ b.req.body.libraryId # l
    \/ b.existing.found /\ b.existing.row.libraryId # l
    \/ /\ b.req.op = "PATCH"
       /\ b.existing.found
       /\ b.req.body.libraryId \notin {Undefined, b.existing.row.libraryId}

C18_Refused ==
    \A h \in Handlers : \A l \in Libraries :
        (ManagerOf(bk[h].req, l) /\ bk[h].pc = "done" /\ C18_Attempt(bk[h], l))
            => bk[h].status = 403 /\ ~bk[h].wrote

\* C18: a manager's request writes to books of its own library only
C18_ManagerScoping == []C18_Refused /\ [][C18_Step]_vars

(***************************************************************************)
(* C19.  POST /api/books is for administrators and managers: a request     *)
(* that states another role, or none, is refused with 403 and creates no   *)
(* book.  Stated by its weakest consequence: such a request writes no      *)
(* book and is not answered 201.  Line 148 tests userRole ===              *)
(* UserRole.ADMIN || UserRole.MANAGER, which no role fails, so that only   *)
(* a missing x-user-id is refused.                                         *)
(***************************************************************************)
\* the request states the role ADMIN or MANAGER
StatesStaff(r) ==
    /\ "x-user-role" \in DOMAIN r.headers
    /\ r.headers["x-user-role"] \in {"ADMIN", "MANAGER"}

C19_Outsider(b) == b.req.op = "POST" /\ ~StatesStaff(b.req)

\* C19: a POST that states neither ADMIN nor MANAGER creates no book and
\* is not answered 201
C19_CreateReserved ==
    \A h \in Handlers :
        C19_Outsider(bk[h]) =>
            /\ ~bk[h].wrote
            /\ bk[h].pc = "done" => bk[h].status # 201

(***************************************************************************)
(* C20.  The feedback table holds at most one feedback of a user on a      *)
(* book, and a post of a user who already has one on the book is answered  *)
(* 400 and creates nothing (unless an awaited call throws: 500).  The      *)
(* handler looks for the existing feedback at line 278 and creates at      *)
(* line 293, two awaited calls with nothing to hold them together: two     *)
(* overlapping posts both find none and both create.                       *)
(***************************************************************************)
\* the table holds a feedback of the user on the book
Has(table, userId, bookId) ==
    \E i \in 1..Len(table) :
        table[i].userId = userId /\ table[i].bookId = bookId

C20_AtMostOne ==
    \A i, j \in 1..Len(feedbacks) :
        (feedbacks[i].userId = feedbacks[j].userId
            /\ feedbacks[i].bookId = feedbacks[j].bookId) => i = j

\* the caller of the request is the user and its book is the book
C20_By(f, u, id) ==
    /\ "x-user-id" \in DOMAIN f.req.headers
    /\ f.req.headers["x-user-id"] = IdText(u.id)
    /\ f.req.param = IdText(id)

C20_SecondRefused ==
    \A h \in Handlers : \A u \in Users : \A id \in DOMAIN InitialBooks :
        (C20_By(fb[h], u, id) /\ Has(fb[h].rowsBefore, u.id, id))
            => /\ ~fb[h].wrote
               /\ fb[h].pc = "done" => fb[h].status \in {400, 500}

\* C20: at most one feedback per user and book, a second post gets 400
C20_OneFeedback == C20_AtMostOne /\ C20_SecondRefused

(***************************************************************************)
(* C21.  No two categories have the same name, and a request that would    *)
(* give a category a name another one had when the request came in is      *)
(* answered 409 (500 when an awaited call throws) and writes nothing.      *)
(* The handlers look for the name (lines 107, 197) and write (lines 119,   *)
(* 210) in separate awaited calls: two overlapping requests for the same   *)
(* new name both find it free and both write it.                           *)
(***************************************************************************)
C21_Distinct ==
    \A i, j \in 1..Len(categories) :
        categories[i].name = categories[j].name => i = j

\* the category the request is about: none (0) for POST
C21_Target(c) ==
    IF c.req.op = "PATCH" /\ c.req.param = <<"1">> THEN 1
    ELSE IF c.req.op = "PATCH" /\ c.req.param = <<"2">> THEN 2
    ELSE 0

\* the name of the request was the name of another category when the
\* request came in
C21_Taken(c) ==
    /\ c.req.name # ""
    /\ \E i \in 1..Len(c.rowsBefore) :
          i # C21_Target(c) /\ c.rowsBefore[i].name = c.req.name

\* the request comes from an administrator or a manager and names an
\* existing category, or none for POST
C21_Admitted(c) ==
    /\ "x-user-role" \in DOMAIN c.req.headers
    /\ c.req.headers["x-user-role"] \in {"ADMIN", "MANAGER"}
    /\ c.req.op = "PATCH" => C21_Target(c) \in 1..Len(c.rowsBefore)

C21_Refused ==
    \A h \in Handlers :
        (C21_Admitted(ct[h]) /\ C21_Taken(ct[h])) =>
            /\ ~ct[h].wrote
            /\ ct[h].pc = "done" => ct[h].status \in {409, 500}

\* C21: category names stay unique, a taken name gets 409
C21_UniqueNames == C21_Distinct /\ C21_Refused

(***************************************************************************)
(* C22.  Every book refers to an author of the author table; a DELETE of   *)
(* an author by a caller who states a role other than ADMIN is answered    *)
(* 403, and the step that removes an author is taken for an ADMIN, on an   *)
(* author no book refers to at that moment.  The handler counts the books  *)
(* at line 139 and deletes at line 165; the book POST looks the author up  *)
(* at line 178 and creates at line 198: a book created between the count   *)
(* and the delete is left with an author that is gone.                     *)
(***************************************************************************)
C22_Referenced == \A id \in DOMAIN books : books[id].authorId \in authors

\* the request states a role, and not ADMIN
C22_NotAdmin(a) ==
    /\ a.pc # "idle"
    /\ "x-user-role" \in DOMAIN a.req.headers
    /\ a.req.headers["x-user-role"] # "ADMIN"

C22_Refused ==
    \A h \in Handlers :
        C22_NotAdmin(au[h]) =>
            /\ ~au[h].wrote
            /\ au[h].pc = "done" => au[h].status = 403

C22_DeleteStep ==
    \A a \in authors \ authors' :
        /\ \A id \in DOMAIN books : books[id].authorId # a
        /\ \E h \in Handlers :
              /\ au'[h] # au[h]
              /\ "x-user-role" \in DOMAIN au[h].req.headers
              /\ au[h].req.headers["x-user-role"] = "ADMIN"

\* C22: authors are deleted by ADMIN only and never while a book refers
\* to them
C22_AuthorDelete == [](C22_Referenced /\ C22_Refused) /\ [][C22_DeleteStep]_vars

(***************************************************************************)
(* C23.  A pay request on a penalty that was paid when it came in is       *)
(* answered 400 (401, 403 for a caller not admitted, 500 when an awaited   *)
(* call throws) and writes nothing; no penalty gets more than one 200;     *)
(* no step takes paid from true to false.  The handler reads paid at line  *)
(* 32 and writes at line 57, with where: {id} alone: two overlapping       *)
(* requests both read false, both write and both answer 200.               *)
(***************************************************************************)
C23_AlreadyPaid ==
    \A h \in Handlers :
        pn[h].paidBefore =>
            /\ ~pn[h].wrote
            /\ pn[h].pc = "done" => pn[h].status \in {400, 401, 403, 500}

C23_OneReceipt == \A id \in DOMAIN penalties : penalties[id].acks <= 1

C23_StaysPaid ==
    \A id \in DOMAIN penalties :
        penalties[id].paid => id \in DOMAIN penalties' /\ penalties'[id].paid

\* C23: a penalty is paid at most once and stays paid
C23_PaidOnce == [](C23_AlreadyPaid /\ C23_OneReceipt) /\ [][C23_StaysPaid]_vars

(***************************************************************************)
(* C24.  Every book refers to an author, a category and a library that     *)
(* exist, and a PATCH whose body names one that does not exist writes      *)
(* nothing and is not answered 200 (the claim says 404).  The library is   *)
(* looked up only when the caller is not an administrator (line 190,       *)
(* validation.data.libraryId && !isAdmin): an administrator's PATCH with   *)
(* an unknown libraryId reaches the update of line 198.                    *)
(***************************************************************************)
C24_Valid ==
    \A id \in DOMAIN books :
        /\ books[id].authorId \in authors
        /\ books[id].categoryId \in Categories
        /\ books[id].libraryId \in Libraries

\* the body names a row that does not exist
C24_Dangling(data) ==
    \/ data.authorId # Undefined /\ data.authorId \notin authors
    \/ data.categoryId # Undefined /\ data.categoryId \notin Categories
    \/ data.libraryId # Undefined /\ data.libraryId \notin Libraries

C24_Refused ==
    \A h \in Handlers :
        (bk[h].req.op = "PATCH" /\ bk[h].req.body.valid
            /\ C24_Dangling(bk[h].req.body)) =>
            /\ ~bk[h].wrote
            /\ bk[h].pc = "done" => bk[h].status # 200

\* C24: a book update never leaves a book with a reference to nothing
C24_ReferencesValid == C24_Valid /\ C24_Refused

(***************************************************************************)
(* C25.  A step changes an address only for a PATCH whose target user      *)
(* owns the address, the target being the caller unless the caller states  *)
(* the role ADMIN, and leaves its owner as it is; a step adds an address   *)
(* only for a POST, and the new address belongs to the caller; no address  *)
(* is removed.  A request answered 400, 401, 403 or 404 has written        *)
(* nothing: the table is as it was when the request came in.               *)
(***************************************************************************)
\* the request comes from user u, going by its x-user-id header
C25_Caller(r, u) ==
    "x-user-id" \in DOMAIN r.headers /\ r.headers["x-user-id"] = IdText(u.id)

\* the request is about the addresses of user u, going by its path
C25_Target(r, u) ==
    \/ r.param = <<"m", "e">> /\ C25_Caller(r, u)
    \/ r.param = IdText(u.id)

C25_StatesAdmin(r) ==
    "x-user-role" \in DOMAIN r.headers /\ r.headers["x-user-role"] = "ADMIN"

C25_Added(r, row) ==
    /\ r.op = "POST"
    /\ \E u \in Users : C25_Caller(r, u) /\ row.userId = u.id

C25_Changed(r, old, new) ==
    /\ r.op = "PATCH"
    /\ new.userId = old.userId
    /\ \E u \in Users :
          /\ C25_Target(r, u)
          /\ old.userId = u.id
          /\ C25_Caller(r, u) \/ C25_StatesAdmin(r)

C25_Step ==
    \A h \in Handlers :
        (ad'[h] # ad[h] /\ ad[h].pc # "idle") =>
            /\ Len(addresses') >= Len(addresses)
            /\ \A id \in 1..Len(addresses') :
                  IF id > Len(addresses)
                  THEN C25_Added(ad[h].req, addresses'[id])
                  ELSE addresses'[id] # addresses[id] =>
                          C25_Changed(ad[h].req, addresses[id], addresses'[id])

C25_Rejected ==
    \A h \in Handlers :
        (ad[h].pc = "done" /\ ad[h].status \in {400, 401, 403, 404}) =>
            ~ad[h].wrote /\ addresses = ad[h].rowsBefore

\* C25: addresses are changed for their owner or by an administrator,
\* created for the caller, and untouched by a rejected request
C25_AddressOwnership == []C25_Rejected /\ [][C25_Step]_vars

\* the administrator has changed the city of address 2, which belongs to
\* user 17, and a client's request on it has been answered 404 since
C25_Witness ==
    /\ addresses[2].city = "d"
    /\ ad["h1"].pc = "done"
    /\ ad["h1"].status = 404
    /\ ad["h1"].req.op = "PATCH"
    /\ ad["h1"].req.param = <<"m", "e">>
    /\ ad["h1"].req.body.addressId = 2
    /\ C25_Caller(ad["h1"].req, UserById(7))

(***************************************************************************)
(* C26.  Under /api/users/ a caller who is not an administrator is         *)
(* forwarded on exactly /api/users/me, as CLIENT with GET or PATCH or as   *)
(* DELIVERY with GET, and is answered 403 on everything else: a MANAGER    *)
(* on every path, anyone on the path of their own id (after the            *)
(* permission table has been asked), and on the nested paths.              *)
(***************************************************************************)
\* the paths and methods the table opens under /api/users/, by role
C26_Open(role, path, method) ==
    /\ path = <<"/", "a", "p", "i", "/", "u", "s", "e", "r", "s", "/", "m", "e">>
    /\ \/ role = "CLIENT" /\ method \in {"GET", "PATCH"}
       \/ role = "DELIVERY" /\ method = "GET"

\* an authenticated caller, not an administrator, on a path under
\* /api/users/
C26_Case(m) ==
    /\ Authenticated(m)
    /\ Owner(m).role # "ADMIN"
    /\ Under(m.req.path, UsersPrefix)

C26_Forwarding(m) ==
    C26_Case(m) =>
        /\ IF C26_Open(Owner(m).role, m.req.path, m.req.method)
           THEN Ended(m, "forward") ELSE Ended(m, "403")
        /\ m.req.path = UsersPrefix \o IdText(Owner(m).id) => m.permCalls = 1

\* C26: under /api/users/ only /api/users/me is forwarded for a caller who
\* is not an administrator
C26_UsersMeOnly == \A p \in Procs : C26_Forwarding(mw[p])

\* the manager has been refused the path of their own id by the table
C26_Witness ==
    /\ C26_Case(mw[1])
    /\ Owner(mw[1]).role = "MANAGER"
    /\ mw[1].req.path = PathUsers2
    /\ mw[1].permCalls = 1
    /\ Ended(mw[1], "403")
====
